---- MODULE Spec2Model ----
(***************************************************************************)
(* WebSocketRT (TypeScript): the priority send queue and the connection    *)
(* core (receive, send and dispatch loops, message cancellation, close).   *)
(*                                                                         *)
(* One Connection is modelled, attached to a FramedSocket whose frames     *)
(* come back to the connection that sent them, so the same object plays    *)
(* the sending and the receiving end of the protocol.  The state of the    *)
(* program is the record `conn`: the fields of the Connection, the locals  *)
(* of its three loops at their await points, the socket, and the Message   *)
(* and OutgoingMessage objects created so far.  Code between two awaits    *)
(* runs without interruption (JavaScript is single threaded), so one       *)
(* action is one such stretch of code.                                     *)
(***************************************************************************)
EXTENDS Integers, Sequences, FiniteSets, TLC

\* ------------------------------------------------------------------ bounds
\* The TransportConfig of the modelled connection (maxConcurrentMessages is
\* MaxConcurrentMessages, or PairConcurrentMessages where two messages have
\* to be under way together) ...
PriorityLevels == 2
MaxConcurrentMessages == 1
PairConcurrentMessages == 2
SinglePacketMtu == 2
MaxPercentThroughput == 0
MissedPingCount == 1
\* ... and the size of a run: OutgoingMessage objects created, payload bytes
\* of a message, send() calls pending at once, expiries of the ping timer,
\* exceptions thrown by application callbacks.
MaxOut == 2
MaxLen == 3
MaxCalls == 2
MaxPings == 1
MaxThrows == 1
MaxFired == 2
MaxCloses == 2
MaxPeerFrames == 2
MaxOps == 5

\* --------------------------------------------------------- program constants
TargetResponsiveness == 100
MaxDataFrames == 15
Capabilities == 1
CancelMessage == 2
ReceivedMessagesLength == 16

\* Op(e), with e evaluated a single time however often Op uses it
Once(e, Op(_)) == CHOOSE r \in {Op(x) : x \in {e}} : TRUE

Min(a, b) == IF a <= b THEN a ELSE b

VARIABLES
  conn,        \* the connection, its loops, its socket and its messages
  sqLast,      \* SendQueue harness: the last call and what it returned
  applied      \* the function applied by itself last: its arguments and its result

vars == <<conn, sqLast, applied>>

\* ------------------------------------------------- Message, OutgoingMessage
\* `os` is the sequence of OutgoingMessage objects and `ms` the sequence of
\* incoming Message objects; an object is named by its index.  An
\* OutgoingMessage with src = 0 wraps an outgoing Message made by the
\* application, one with src = m forwards the incoming Message m.

\* Message.getBytesReceived of the Message wrapped by OutgoingMessage o
BytesReceivedOf(os, ms, o) ==
  IF os[o].src = 0 THEN os[o].length ELSE ms[os[o].src].bytesReceived

\* OutgoingMessage.getBytesRemaining
BytesRemaining(os, o) == os[o].length - os[o].bytesSent

\* OutgoingMessage.getBytesReady
BytesReady(os, ms, o) == BytesReceivedOf(os, ms, o) - os[o].bytesSent

\* Message.isComplete of an incoming Message
IsComplete(ms, m) == ms[m].length = ms[m].bytesReceived

\* new OutgoingMessage(messageNumber, message, priority); `holding` and
\* `cancelCalled` are observations: the message number has not been given
\* back yet, Connection.cancel was called with this object.
NewOut(num, src, length, priority) ==
  [messageNumber |-> num, src |-> src, length |-> length, priority |-> priority,
   bytesSent |-> 0, holding |-> TRUE, cancelCalled |-> FALSE, liveAtSend |-> FALSE]

\* No event has been signalled yet
NoneFired == [NewMessage |-> 0, Complete |-> 0]

\* new Message(length, false).  The other fields are observations: `delivered`
\* and `messageDelivered` are the events signalled so far at the
\* connection-level registry and at the registry of the message, `fired`
\* counts them (up to MaxFired); `registered` tells that the application's
\* connection-level callback registered a message-level callback for
\* PayloadReceived and Complete when it was told NewMessage, and
\* `completeNotified` counts the Complete events that callback was given;
\* `closeCancelled` that forceClose cancelled the message after NewMessage was
\* delivered and `cancelledUnannounced` that the message was cancelled before
\* its NewMessage event was signalled.
NewMsg(length) ==
  [length |-> length, bytesReceived |-> 0, isCancelled |-> FALSE,
   sentNewMessageCallback |-> FALSE, sentCompleteCallback |-> FALSE,
   callbacks |-> <<>>, delivered |-> {}, closeCancelled |-> FALSE,
   messageDelivered |-> {}, fired |-> [message |-> NoneFired, connection |-> NoneFired],
   registered |-> FALSE, completeNotified |-> 0, cancelledUnannounced |-> FALSE]

\* ---------------------------------------------------------------- SendQueue

NoQueue == [exists |-> FALSE, items |-> <<>>]

\* new SendQueue(priorityLevels): no queue is instantiated, the cursor is 0
SQNew == [queues |-> [p \in 0..(PriorityLevels - 1) |-> NoQueue],
          highestPriority |-> 0]

\* The enqueue of the version before October 2018, which left the cursor alone.
SQEnqueueNoCursor(sq, o, priority) ==
  [sq EXCEPT !.queues[priority] =
     [exists |-> TRUE, items |-> Append(sq.queues[priority].items, o)]]

\* SendQueue.enqueue
SQEnqueue(sq, o, priority) ==
  [queues |-> [sq.queues EXCEPT ![priority] =
                 [exists |-> TRUE, items |-> Append(@.items, o)]],
   highestPriority |-> Min(sq.highestPriority, priority)]

\* A getNext that looks behind a head that has no payload ready.
RECURSIVE SQScanSkippingHead(_, _, _, _, _)
SQScanSkippingHead(sq, os, ms, priority, maxBytes) ==
  IF priority >= PriorityLevels
  THEN [message |-> 0, bytesToSend |-> 0, sq |-> sq]
  ELSE LET ready == SelectSeq(sq.queues[priority].items,
                              LAMBDA o : BytesReady(os, ms, o) > 0)
       IN IF ready = <<>>
          THEN SQScanSkippingHead(sq, os, ms, priority + 1, maxBytes)
          ELSE [message |-> Head(ready),
                bytesToSend |-> Min(BytesReady(os, ms, Head(ready)), maxBytes),
                sq |-> IF BytesReady(os, ms, Head(ready)) = BytesRemaining(os, Head(ready))
                          /\ BytesReady(os, ms, Head(ready)) <= maxBytes
                       THEN [sq EXCEPT !.queues[priority].items =
                                         SelectSeq(@, LAMBDA o : o # Head(ready))]
                       ELSE sq]

\* The body of the while loop of SendQueue.getNext, from level `priority` on.
RECURSIVE SQScan(_, _, _, _, _)
SQScan(sq, os, ms, priority, maxBytes) ==
  IF priority >= PriorityLevels
  THEN [message |-> 0, bytesToSend |-> 0, sq |-> sq]
  ELSE LET queue == sq.queues[priority] IN
       IF ~queue.exists
       THEN SQScan(sq, os, ms, priority + 1, maxBytes)
       ELSE IF queue.items = <<>>
       THEN SQScan([sq EXCEPT !.highestPriority = @ + 1], os, ms, priority + 1, maxBytes)
       ELSE LET message == Head(queue.items)
                bytesReady == BytesReady(os, ms, message)
            IN IF bytesReady > 0
               THEN [message |-> message,
                     bytesToSend |-> Min(bytesReady, maxBytes),
                     sq |-> IF bytesReady = BytesRemaining(os, message) /\ bytesReady <= maxBytes
                            THEN [sq EXCEPT !.queues[priority].items = Tail(@)]
                            ELSE sq]
               ELSE SQScan(sq, os, ms, priority + 1, maxBytes)

\* SendQueue.getNext
SQGetNext(sq, os, ms, maxBytes) == SQScan(sq, os, ms, sq.highestPriority, maxBytes)

SeqWithout(s, x) == SelectSeq(s, LAMBDA y : y # x)

InSeq(s, x) == \E i \in 1..Len(s) : s[i] = x

\* SendQueue.cancel; ok = FALSE stands for the 'Failed to cancel' error.
SQCancel(sq, os, o) ==
  LET priority == os[o].priority
      queue == sq.queues[priority]
  IN IF ~queue.exists THEN [ok |-> FALSE, sq |-> sq]
     ELSE IF Len(queue.items) = 1
     THEN IF Head(queue.items) = o
          THEN [ok |-> TRUE, sq |-> [sq EXCEPT !.queues[priority].items = <<>>]]
          ELSE [ok |-> FALSE, sq |-> sq]
     ELSE IF Len(queue.items) > 1
     THEN [ok |-> InSeq(queue.items, o),
           sq |-> [sq EXCEPT !.queues[priority].items = SeqWithout(queue.items, o)]]
     ELSE [ok |-> FALSE, sq |-> sq]

\* Every OutgoingMessage held by some level of the queue.
SQQueued(sq) ==
  {o \in 1..MaxOut : \E p \in 0..(PriorityLevels - 1) : InSeq(sq.queues[p].items, o)}

\* ------------------------------------------------------ AsyncEventWaitHandle
\* An event is modelled by its _isSet flag.  A loop blocked in whenAny holds
\* one Waiter registered with every event of the call; set() completes the
\* first Waiter that is not complete yet and, for an auto-reset event, returns
\* without touching the flag; with no such Waiter it sets the flag.  The
\* continuation of a completed Waiter runs later (setTimeout): until then the
\* loop is "resumed".  A Waiter completed through another event is skipped by
\* set(), which is why only blocked loops are looked at here.

\* _dataToSendEvent.set(): only the send loop waits for it
SetDataToSendEvent(conn0) ==
  Once(conn0, LAMBDA c :
    IF c.sendLoop = "whenAnyData"
    THEN [c EXCEPT !.sendLoop = "resumed"]
    ELSE [c EXCEPT !.dataToSendEvent = TRUE])

\* A _pongEvent that the throttled send loop does not wait for.
SetPongEventUnthrottled(conn0) ==
  Once(conn0, LAMBDA c :
    IF c.sendLoop = "whenAnyData"
    THEN [c EXCEPT !.sendLoop = "resumed"]
    ELSE c)

\* _pongEvent.set(): the send loop waits for it in both of its whenAny calls
SetPongEvent(conn0) ==
  Once(conn0, LAMBDA c :
    IF c.sendLoop \in {"whenAnyData", "whenAnyReset"}
    THEN [c EXCEPT !.sendLoop = "resumed"]
    ELSE [c EXCEPT !.pongEvent = TRUE])

\* _dispatchEvent.set(): only the dispatch loop waits for it
SetDispatchEvent(conn0) ==
  Once(conn0, LAMBDA c :
    IF c.dispatchLoop = "whenAny"
    THEN [c EXCEPT !.dispatchLoop = "resumed"]
    ELSE [c EXCEPT !.dispatchEvent = TRUE])

\* _messageNumberEvent.set(): the blocked send() calls wait for it, first
\* come first served
SetMessageNumberEvent(conn0) ==
  Once(conn0, LAMBDA c :
    IF c.messageNumberWaiters # <<>>
    THEN [c EXCEPT !.calls[Head(c.messageNumberWaiters)].pc = "resumed",
                   !.messageNumberWaiters = Tail(@)]
    ELSE [c EXCEPT !.messageNumberEvent = TRUE])

\* _isClosing.set(): a manual-reset event releases every Waiter
SetIsClosing(c) ==
  [c EXCEPT !.isClosing = TRUE,
            !.sendLoop = IF @ \in {"whenAnyData", "whenAnyReset"} THEN "resumed" ELSE @,
            !.dispatchLoop = IF @ = "whenAny" THEN "resumed" ELSE @,
            !.calls = [i \in DOMAIN @ |->
                         IF @[i].pc = "whenAny" THEN [@[i] EXCEPT !.pc = "resumed"] ELSE @[i]],
            !.messageNumberWaiters = <<>>]

\* ------------------------------------------------------------ the socket
\* What is kept of the first frame handed to the socket: nothing yet, ...
NoFrame == [kind |-> "none", opCode |-> 0]

\* ... or its kind and, for a control frame, its opcode
FrameType(frame) ==
  [kind |-> frame.kind, opCode |-> IF frame.kind = "control" THEN frame.opCode ELSE 0]

\* SocketSim.sendFrameAsync: a frame sent on a closed socket is dropped, and
\* every frame is when the simulator drops messages; `first` is the first
\* frame the connection called sendFrameAsync with
sendFrameAsync(conn0, frame) ==
  Once([conn0 EXCEPT !.socket.first = IF @ = NoFrame THEN FrameType(frame) ELSE @],
       LAMBDA c :
    IF c.socket.dropMessages \/ c.socket.isClosed THEN c
    ELSE [c EXCEPT !.socket.queue = Append(@, frame)])

\* Connection.sendControlFrame (the estimates every control frame carries
\* are left out)
sendControlFrame(c, opCode, data) ==
  sendFrameAsync(c, [kind |-> "control", opCode |-> opCode, data |-> data])

\* A data frame: frameLength bytes of the payload of OutgoingMessage `out`
DataFrame(d) ==
  [kind |-> "data", out |-> d.out, messageNumber |-> d.messageNumber,
   offset |-> d.offset, frameLength |-> d.frameLength]

\* The number of bytes receiveFrameAsync reports for a frame
FrameBytes(frame) == IF frame.kind = "data" THEN frame.frameLength ELSE 1

\* --------------------------------------------------- TransportCapabilities
ZeroCapabilities == [majorVersion |-> 0, minorVersion |-> 0, capabilities1 |-> {}]

LocalCapabilities ==
  [majorVersion |-> 1, minorVersion |-> 1, capabilities1 |-> {Capabilities, CancelMessage}]

\* A negotiate that answers with the version of its first argument.
negotiateFirst(caps1, caps2) ==
  [majorVersion |-> caps1.majorVersion,
   minorVersion |-> caps1.minorVersion,
   capabilities1 |-> caps1.capabilities1 \cap caps2.capabilities1]

\* TransportCapabilities.negotiate; a bitmask is the set of its bits, and
\* VersionComparer.lower (of the package @leosingleton/commonlibs) returns
\* the lower of two [major, minor] arrays
negotiate(caps1, caps2) ==
  LET lower == \/ caps1.majorVersion < caps2.majorVersion
               \/ /\ caps1.majorVersion = caps2.majorVersion
                  /\ caps1.minorVersion <= caps2.minorVersion
  IN [majorVersion |-> IF lower THEN caps1.majorVersion ELSE caps2.majorVersion,
      minorVersion |-> IF lower THEN caps1.minorVersion ELSE caps2.minorVersion,
      capabilities1 |-> caps1.capabilities1 \cap caps2.capabilities1]

\* ------------------------------------------------------- close and cancel

\* DispatchQueue.enqueue: a message is never queued twice
DispatchEnqueue(q, m) == IF InSeq(q, m) THEN q ELSE Append(q, m)

\* Connection.cancelReceivedMessage for an occupied slot
cancelReceivedMessage(conn0, n) ==
  Once(conn0, LAMBDA c :
    LET m == c.receivedMessages[n] IN
    SetDispatchEvent(
      [c EXCEPT !.msgs[m].isCancelled = TRUE,
                !.msgs[m].cancelledUnannounced = ~c.msgs[m].sentNewMessageCallback,
                !.dispatchQueue = DispatchEnqueue(@, m),
                !.receivedMessages[n] = 0,
                !.receivedMessagesCount = @ - 1]))

\* The loop of forceClose over the slots of _receivedMessages, from slot n on
RECURSIVE cancelAllReceived(_, _)
cancelAllReceived(conn0, n) ==
  Once(conn0, LAMBDA c :
    IF n >= ReceivedMessagesLength THEN c
    ELSE IF c.receivedMessages[n] # 0
    THEN cancelAllReceived(cancelReceivedMessage(c, n), n + 1)
    ELSE cancelAllReceived(c, n + 1))

\* The incoming messages in progress whose NewMessage event was delivered
InProgressAnnounced(conn0) ==
  Once(conn0, LAMBDA c :
    {c.receivedMessages[n] : n \in 0..(ReceivedMessagesLength - 1)} \cap
    {m \in 1..Len(c.msgs) : "NewMessage" \in c.msgs[m].delivered})

\* Connection.forceClose
forceClose(conn0, reason) ==
  Once(conn0, LAMBDA c :
    IF c.closeReason # "" THEN c
    ELSE SetIsClosing(
           cancelAllReceived(
             [c EXCEPT !.closeReason = reason,
                       !.socket.isClosed = TRUE,
                       !.socket.closeCalls = @ + 1,
                       !.msgs = [m \in DOMAIN @ |->
                                   IF m \in InProgressAnnounced(c)
                                   THEN [@[m] EXCEPT !.closeCancelled = TRUE]
                                   ELSE @[m]]],
             0)))

\* Connection._loopExceptionWrapper: the error is logged and the connection
\* closed with the name of the error as the reason
loopExceptionWrapper(c, err) ==
  forceClose([c EXCEPT !.logged = @ \cup {err.message}], err.name)

InvalidMessageNumber == [name |-> "Error", message |-> "Invalid message number"]

FailedToCancel == [name |-> "Error", message |-> "Failed to cancel"]

NoSuchMessage == [name |-> "TypeError", message |-> "Cannot read property of undefined"]

CallbackError == [name |-> "Error", message |-> "thrown by a callback"]

\* Connection.cancelReceivedMessages, from message number n on; thrown tells
\* that cancelReceivedMessage threw 'Invalid message number'
RECURSIVE cancelReceivedMessages(_, _, _)
cancelReceivedMessages(conn0, messageNumbers, n) ==
  Once(conn0, LAMBDA c :
    IF n >= ReceivedMessagesLength THEN [c |-> c, thrown |-> FALSE]
    ELSE IF n \in messageNumbers
    THEN IF c.receivedMessages[n] = 0
         THEN [c |-> c, thrown |-> TRUE]
         ELSE cancelReceivedMessages(cancelReceivedMessage(c, n), messageNumbers, n + 1)
    ELSE cancelReceivedMessages(c, messageNumbers, n + 1))

\* ------------------------------------------------------------ receive loop

\* The loop over the descriptors of a control frame 0x01..0x0f
RECURSIVE prepareDataFrames(_, _)
prepareDataFrames(conn0, dataFrames) ==
  Once(conn0, LAMBDA c :
    IF dataFrames = <<>> THEN c
    ELSE LET dataFrame == Head(dataFrames)
             c1 == IF dataFrame.isFirst
                   THEN [c EXCEPT !.msgs = Append(@, NewMsg(dataFrame.length)),
                                  !.receivedMessages[dataFrame.messageNumber] = Len(c.msgs) + 1,
                                  !.receivedMessagesCount = @ + 1]
                   ELSE c
         IN prepareDataFrames([c1 EXCEPT !.expectedDataFrames = Append(@, dataFrame)],
                              Tail(dataFrames)))

\* Top of the receive loop: the next expected data frame is taken from the
\* queue and the payload of its Message looked up, then the loop awaits a frame
receiveLoopTop(conn0) ==
  Once(conn0, LAMBDA c :
    IF c.expectedDataFrames # <<>>
    THEN LET expectedDataFrame == Head(c.expectedDataFrames)
             c1 == [c EXCEPT !.expectedDataFrames = Tail(@),
                             !.expectedDataFrame = <<expectedDataFrame>>]
         IN IF c.receivedMessages[expectedDataFrame.messageNumber] = 0
            THEN loopExceptionWrapper([c1 EXCEPT !.receiveLoop = "done"], NoSuchMessage)
            ELSE c1
    ELSE [c EXCEPT !.expectedDataFrame = <<>>])

\* A receive loop that leaves the slot of a message occupied after its last frame.
receiveDataFrameKeepingSlot(conn0, expectedDataFrame, bytes) ==
  Once(conn0, LAMBDA c :
    LET message == c.receivedMessages[expectedDataFrame.messageNumber] IN
    IF message = 0
    THEN loopExceptionWrapper([c EXCEPT !.receiveLoop = "done"], NoSuchMessage)
    ELSE SetDispatchEvent(
           [c EXCEPT !.msgs[message].bytesReceived = @ + bytes,
                     !.dispatchQueue = DispatchEnqueue(@, message)]))

\* Receive loop, "Process a data frame"
receiveDataFrame(conn0, expectedDataFrame, bytes) ==
  Once(conn0, LAMBDA c :
    LET message == c.receivedMessages[expectedDataFrame.messageNumber] IN
    IF message = 0
    THEN loopExceptionWrapper([c EXCEPT !.receiveLoop = "done"], NoSuchMessage)
    ELSE LET c1 == SetDispatchEvent(
                     [c EXCEPT !.msgs[message].bytesReceived = @ + bytes,
                               !.dispatchQueue = DispatchEnqueue(@, message)])
         IN IF expectedDataFrame.isLast
            THEN [c1 EXCEPT !.receivedMessages[expectedDataFrame.messageNumber] = 0,
                            !.receivedMessagesCount = @ - 1]
            ELSE c1)

\* A receive loop that asks for a capabilities frame to be sent whatever the
\* peer is able to read.
receiveCapabilitiesEager(c, data) ==
  LET c0 == [c EXCEPT !.negotiatedCapabilities = negotiate(LocalCapabilities, data)]
      c1 == [c0 EXCEPT !.capableReceived =
                          @ \/ Capabilities \in c0.negotiatedCapabilities.capabilities1]
  IN IF ~c1.capabilitiesSent
     THEN SetDataToSendEvent([c1 EXCEPT !.sendCapabilities = TRUE])
     ELSE c1

\* Receive loop, a capabilities frame (opcode 0x00); `capableReceived` tells
\* that a frame was received whose negotiated result holds the Capabilities bit
receiveCapabilities(c, data) ==
  LET c0 == [c EXCEPT !.negotiatedCapabilities = negotiate(LocalCapabilities, data)]
      c1 == [c0 EXCEPT !.capableReceived =
                          @ \/ Capabilities \in c0.negotiatedCapabilities.capabilities1]
  IN IF Capabilities \in c1.negotiatedCapabilities.capabilities1 /\ ~c1.capabilitiesSent
     THEN SetDataToSendEvent([c1 EXCEPT !.sendCapabilities = TRUE])
     ELSE c1

\* Receive loop, "Process a control frame".  A data frame read as a control
\* frame (which the send loop never causes) is left without effect.
receiveControlFrame(conn0, controlFrame) ==
  Once(conn0, LAMBDA c :
    IF controlFrame.kind # "control" THEN c
    ELSE IF controlFrame.opCode = 0
    THEN receiveCapabilities(c, controlFrame.data)
    ELSE IF controlFrame.opCode >= 1 /\ controlFrame.opCode <= 15
    THEN prepareDataFrames(c, controlFrame.data)
    ELSE IF controlFrame.opCode = 16
    THEN SetPongEvent([c EXCEPT !.sendPong = TRUE])
    ELSE IF controlFrame.opCode = 17
    THEN [c EXCEPT !.pingResponseTimer = FALSE, !.missedPingCount = 0, !.unanswered = 0]
    ELSE IF controlFrame.opCode = 18
    THEN LET r == cancelReceivedMessages(c, controlFrame.data, 0) IN
         IF r.thrown
         THEN loopExceptionWrapper([r.c EXCEPT !.receiveLoop = "done"], InvalidMessageNumber)
         ELSE r.c
    ELSE c)

\* One turn of the receive loop: receiveFrameAsync returns, the frame is
\* processed, and the loop is back at its await
receiveLoop(conn0) ==
  Once(conn0, LAMBDA c :
    IF c.socket.isClosed
    THEN forceClose([c EXCEPT !.receiveLoop = "done"], "WebSocket closed by remote side")
    ELSE LET frame == Head(c.socket.queue)
             c1 == [c EXCEPT !.socket.queue = Tail(@)]
             c2 == IF c.expectedDataFrame # <<>>
                   THEN receiveDataFrame(c1, c.expectedDataFrame[1], FrameBytes(frame))
                   ELSE receiveControlFrame(c1, frame)
         IN IF c2.receiveLoop = "done" THEN c2 ELSE receiveLoopTop(c2))

\* ----------------------------------------------------------- dispatch loop

\* Connection.cancel
cancel(c, o) ==
  SetDataToSendEvent([c EXCEPT !.outgoingMessagesToCancel = Append(@, o),
                               !.outs[o].cancelCalled = TRUE])

\* An event computation that tells of every cancellation.
EventsOfTellingAll(msg) ==
  IF msg.isCancelled THEN {"Cancelled"}
  ELSE {"PayloadReceived"} \cup (IF ~msg.sentNewMessageCallback THEN {"NewMessage"} ELSE {})
                           \cup (IF ~msg.sentCompleteCallback /\ msg.length = msg.bytesReceived
                                 THEN {"Complete"} ELSE {})

\* The events Message._executeCallbacks hands to the callbacks; the empty
\* set stands for its `return 0`
EventsOf(msg) ==
  LET new == ~msg.sentNewMessageCallback
      complete == ~msg.sentCompleteCallback /\ msg.length = msg.bytesReceived
  IN IF msg.isCancelled
     THEN IF new THEN {} ELSE {"Cancelled"}
     ELSE {"PayloadReceived"} \cup (IF new THEN {"NewMessage"} ELSE {})
                              \cup (IF complete THEN {"Complete"} ELSE {})

\* message._executeCallbacks(): the callbacks send() registered on the
\* message, a pair for every OutgoingMessage that forwards it
RECURSIVE messageCallbacks(_, _, _)
messageCallbacks(conn0, callbacks, events) ==
  Once(conn0, LAMBDA c :
    IF callbacks = <<>> THEN c
    ELSE LET c1 == IF "PayloadReceived" \in events THEN SetDataToSendEvent(c) ELSE c
             c2 == IF "Cancelled" \in events THEN cancel(c1, Head(callbacks)) ELSE c1
         IN messageCallbacks(c2, Tail(callbacks), events))

\* The count of the events of one registry after `events` were signalled
Fire(fired, events) ==
  [e \in DOMAIN fired |-> IF e \in events THEN Min(fired[e] + 1, MaxFired) ELSE fired[e]]

\* message._executeCallbacks(): the registry of the message is given the
\* events; the flags are left alone
executeMessageCallbacks(conn0, m) ==
  Once(conn0, LAMBDA c :
    LET events == EventsOf(c.msgs[m]) IN
    IF events = {} THEN c
    ELSE messageCallbacks(
           [c EXCEPT !.msgs[m].messageDelivered = @ \cup events,
                     !.msgs[m].fired.message = Fire(@, events),
                     !.msgs[m].completeNotified =
                        IF c.msgs[m].registered /\ "Complete" \in events
                        THEN Min(@ + 1, MaxFired) ELSE @],
           c.msgs[m].callbacks, events))

\* A connection-level pass that leaves the two flags as they are.
connectionCallbacksForgetful(conn0, m, events) ==
  Once(conn0, LAMBDA c :
    [c EXCEPT !.msgs[m].delivered = @ \cup events,
              !.msgs[m].fired.connection = Fire(@, events),
              !.msgs[m].registered = @ \/ "NewMessage" \in events])

\* message._executeCallbacks(this._callbacks): the flags are set whatever
\* happens next, the application's callback is told the events
connectionCallbacks(conn0, m, events) ==
  Once(conn0, LAMBDA c :
    [c EXCEPT !.msgs[m].sentNewMessageCallback = TRUE,
              !.msgs[m].sentCompleteCallback = @ \/ IsComplete(c.msgs, m),
              !.msgs[m].delivered = @ \cup events,
              !.msgs[m].fired.connection = Fire(@, events),
              !.msgs[m].registered = @ \/ "NewMessage" \in events])

\* whenAny([_dispatchEvent, _isClosing]) of the dispatch loop
dispatchWhenAny(conn0) ==
  Once(conn0, LAMBDA c :
    IF c.dispatchEvent THEN [c EXCEPT !.dispatchEvent = FALSE, !.dispatchLoop = "resumed"]
    ELSE IF c.isClosing THEN [c EXCEPT !.dispatchLoop = "resumed"]
    ELSE [c EXCEPT !.dispatchLoop = "whenAny"])

\* Connection._dispatchLoop from the test of its while loop to its next
\* await.  The application's callback throws for the throwAt-th message of
\* this run (0: for none); k counts the messages.
RECURSIVE dispatchLoop(_, _, _)
dispatchLoop(conn0, throwAt, k) ==
  Once(conn0, LAMBDA c :
    IF ~(~c.isClosing \/ c.receivedMessagesCount > 0)
    THEN [c EXCEPT !.dispatchLoop = "done"]
    ELSE IF c.dispatchQueue = <<>> THEN dispatchWhenAny(c)
    ELSE LET message == Head(c.dispatchQueue)
             c1 == [c EXCEPT !.dispatchQueue = Tail(@)]
             c2 == executeMessageCallbacks(c1, message)
             events == EventsOf(c2.msgs[message])
             c3 == connectionCallbacks(c2, message, events)
         IN IF k = throwAt /\ events # {}
            THEN loopExceptionWrapper(
                   [c3 EXCEPT !.dispatchLoop = "done", !.throws = @ + 1], CallbackError)
            ELSE IF c3.dispatchQueue = <<>> THEN dispatchWhenAny(c3)
            ELSE dispatchLoop(c3, throwAt, k + 1))

\* ------------------------------------------------------------------ send()

IdleCall == [pc |-> "idle", src |-> 0, length |-> 0, priority |-> 0, live |-> FALSE]

\* send() from `new OutgoingMessage` on, for the call in slot i
sendEnqueue(conn0, i, messageNumber) ==
  Once(conn0, LAMBDA c :
    LET call == c.calls[i]
        o == Len(c.outs) + 1
        messageOut == [NewOut(messageNumber, call.src, call.length, call.priority)
                         EXCEPT !.liveAtSend = call.live]
        c1 == [c EXCEPT !.outs = Append(@, messageOut), !.calls[i] = IdleCall]
        c2 == IF call.src # 0 /\ ~IsComplete(c.msgs, call.src)
              THEN [c1 EXCEPT !.msgs[call.src].callbacks = Append(@, o)]
              ELSE c1
    IN SetDataToSendEvent([c2 EXCEPT !.sendQueue = SQEnqueue(@, o, call.priority)]))

\* A send() that reads the first message number of the pool and leaves it there.
sendTakeNumberKeeping(conn0, i) ==
  Once(conn0, LAMBDA c :
    IF c.sendMessageNumbers # <<>>
    THEN sendEnqueue(c, i, Head(c.sendMessageNumbers))
    ELSE IF c.messageNumberEvent
    THEN [c EXCEPT !.messageNumberEvent = FALSE, !.calls[i].pc = "resumed"]
    ELSE [c EXCEPT !.calls[i].pc = "whenAny", !.messageNumberWaiters = Append(@, i)])

\* The while loop of send(): a message number is taken, or the call blocks in
\* whenAny([_messageNumberEvent, _isClosing])
sendTakeNumber(conn0, i) ==
  Once(conn0, LAMBDA c :
    IF c.sendMessageNumbers # <<>>
    THEN sendEnqueue([c EXCEPT !.sendMessageNumbers = Tail(@)], i, Head(c.sendMessageNumbers))
    ELSE IF c.messageNumberEvent
    THEN [c EXCEPT !.messageNumberEvent = FALSE, !.calls[i].pc = "resumed"]
    ELSE [c EXCEPT !.calls[i].pc = "whenAny", !.messageNumberWaiters = Append(@, i)])

\* Connection.send up to its first await or its return; src = 0 sends a
\* new outgoing Message of `length` bytes, src = m forwards incoming Message m
\* A send that takes its message number before it looks at the priority.
sendLate(conn0, i, src, length, priority) ==
  Once(conn0, LAMBDA c :
    IF c.isClosing THEN c
    ELSE IF priority >= PriorityLevels
    THEN [c EXCEPT !.sendMessageNumbers = IF @ = <<>> THEN @ ELSE Tail(@)]
    ELSE sendTakeNumber(
           [c EXCEPT !.calls[i] =
              [pc |-> "running", src |-> src, length |-> length, priority |-> priority,
               live |-> src # 0 /\ ~IsComplete(c.msgs, src) /\ ~c.msgs[src].isCancelled]],
           i))

\* Connection.send up to its first await.  A priority of priorityLevels or
\* more throws, and a closing connection returns, before anything is touched.
send(conn0, i, src, length, priority) ==
  Once(conn0, LAMBDA c :
    IF priority >= PriorityLevels THEN c
    ELSE IF c.isClosing THEN c
    ELSE sendTakeNumber(
           [c EXCEPT !.calls[i] =
              [pc |-> "running", src |-> src, length |-> length, priority |-> priority,
               live |-> src # 0 /\ ~IsComplete(c.msgs, src) /\ ~c.msgs[src].isCancelled]],
           i))

\* send() after its await
sendResumed(conn0, i) ==
  Once(conn0, LAMBDA c :
    IF c.isClosing THEN [c EXCEPT !.calls[i] = IdleCall]
    ELSE sendTakeNumber(c, i))

\* --------------------------------------------------------------- send loop

\* _outboundThroughputEstimate, kept at the value the constructor gives it
OutboundThroughputEstimate == 128 * 1024

\* The bytes one iteration of the send loop may send: the estimate scaled by
\* the configuration, rounded up to the next multiple of an MTU
bytesPerIteration(estimate, maxPercentThroughput, targetResponsiveness, singlePacketMtu) ==
  ((((estimate * maxPercentThroughput * targetResponsiveness) \div 100000)
      \div singlePacketMtu) + 1) * singlePacketMtu

BytesPerIteration ==
  bytesPerIteration(OutboundThroughputEstimate, MaxPercentThroughput, TargetResponsiveness,
                    SinglePacketMtu)

\* A cancelOutgoingMessage that does not look at the negotiated capabilities.
cancelOutgoingMessageRegardless(conn0, message) ==
  Once(conn0, LAMBDA c :
    IF BytesRemaining(c.outs, message) = 0
    THEN [c |-> c, result |-> FALSE, thrown |-> FALSE]
    ELSE LET r == SQCancel(c.sendQueue, c.outs, message) IN
         IF ~r.ok
         THEN [c |-> [c EXCEPT !.sendQueue = r.sq], result |-> FALSE, thrown |-> TRUE]
         ELSE [c |-> SetMessageNumberEvent(
                       [c EXCEPT !.sendQueue = r.sq,
                                 !.sendMessageNumbers = Append(@, c.outs[message].messageNumber),
                                 !.outs[message].holding = FALSE]),
               result |-> TRUE, thrown |-> FALSE])

\* A cancelOutgoingMessage that ignores the cancellation of a legacy peer
\* whatever the state of the pool of message numbers.
cancelOutgoingMessageIgnoring(conn0, message) ==
  Once(conn0, LAMBDA c :
    IF BytesRemaining(c.outs, message) = 0
    THEN [c |-> c, result |-> FALSE, thrown |-> FALSE]
    ELSE IF CancelMessage \notin c.negotiatedCapabilities.capabilities1
    THEN [c |-> c, result |-> FALSE, thrown |-> FALSE]
    ELSE LET r == SQCancel(c.sendQueue, c.outs, message) IN
         IF ~r.ok
         THEN [c |-> [c EXCEPT !.sendQueue = r.sq], result |-> FALSE, thrown |-> TRUE]
         ELSE [c |-> SetMessageNumberEvent(
                       [c EXCEPT !.sendQueue = r.sq,
                                 !.sendMessageNumbers = Append(@, c.outs[message].messageNumber),
                                 !.outs[message].holding = FALSE]),
               result |-> TRUE, thrown |-> FALSE])

\* A cancelOutgoingMessage for which it is never too late.
cancelOutgoingMessageLate(conn0, message) ==
  Once(conn0, LAMBDA c :
    IF CancelMessage \notin c.negotiatedCapabilities.capabilities1
    THEN [c |-> IF c.sendMessageNumbers = <<>>
                THEN forceClose(c, "Out of message numbers and unable to cancel")
                ELSE c,
          result |-> FALSE, thrown |-> FALSE]
    ELSE LET r == SQCancel(c.sendQueue, c.outs, message) IN
         IF ~r.ok
         THEN [c |-> [c EXCEPT !.sendQueue = r.sq], result |-> FALSE, thrown |-> TRUE]
         ELSE [c |-> SetMessageNumberEvent(
                       [c EXCEPT !.sendQueue = r.sq,
                                 !.sendMessageNumbers = Append(@, c.outs[message].messageNumber),
                                 !.outs[message].holding = FALSE]),
               result |-> TRUE, thrown |-> FALSE])

\* Connection.cancelOutgoingMessage: result is its return value, thrown tells
\* that SendQueue.cancel threw
cancelOutgoingMessage(conn0, message) ==
  Once(conn0, LAMBDA c :
    IF BytesRemaining(c.outs, message) = 0
    THEN [c |-> c, result |-> FALSE, thrown |-> FALSE]
    ELSE IF CancelMessage \notin c.negotiatedCapabilities.capabilities1
    THEN [c |-> IF c.sendMessageNumbers = <<>>
                THEN forceClose(c, "Out of message numbers and unable to cancel")
                ELSE c,
          result |-> FALSE, thrown |-> FALSE]
    ELSE LET r == SQCancel(c.sendQueue, c.outs, message) IN
         IF ~r.ok
         THEN [c |-> [c EXCEPT !.sendQueue = r.sq], result |-> FALSE, thrown |-> TRUE]
         ELSE [c |-> SetMessageNumberEvent(
                       [c EXCEPT !.sendQueue = r.sq,
                                 !.sendMessageNumbers = Append(@, c.outs[message].messageNumber),
                                 !.outs[message].holding = FALSE]),
               result |-> TRUE, thrown |-> FALSE])

\* MessageCancelControl.write: the bitmask is written as a UInt16, which keeps
\* its bits 0 to 15
MessageCancelControlWrite(messageNumbers) == messageNumbers \cap (0..15)

\* A cancelOutgoingMessages that reports every request it took to the peer,
\* carried out or not.
cancelOutgoingMessagesTellingAll(conn0) ==
  Once(conn0, LAMBDA c :
    IF c.outgoingMessagesToCancel = <<>>
    THEN [(IF c.msgNumbers # {}
           THEN sendControlFrame(c, 18, MessageCancelControlWrite(c.msgNumbers))
           ELSE c)
            EXCEPT !.sendLoop = "cancelOutgoingMessages"]
    ELSE LET message == Head(c.outgoingMessagesToCancel)
             r == cancelOutgoingMessage([c EXCEPT !.outgoingMessagesToCancel = Tail(@)], message)
         IN IF r.thrown
            THEN loopExceptionWrapper([r.c EXCEPT !.sendLoop = "done"], FailedToCancel)
            ELSE [r.c EXCEPT !.sendLoop = "cancelOutgoingMessage",
                             !.msgNumbers = @ \cup {c.outs[message].messageNumber}])

\* Connection.cancelOutgoingMessages from the test of its while loop to its
\* next await
cancelOutgoingMessages(conn0) ==
  Once(conn0, LAMBDA c :
    IF c.outgoingMessagesToCancel = <<>>
    THEN [(IF c.msgNumbers # {}
           THEN sendControlFrame(c, 18, MessageCancelControlWrite(c.msgNumbers))
           ELSE c)
            EXCEPT !.sendLoop = "cancelOutgoingMessages"]
    ELSE LET message == Head(c.outgoingMessagesToCancel)
             r == cancelOutgoingMessage([c EXCEPT !.outgoingMessagesToCancel = Tail(@)], message)
         IN IF r.thrown
            THEN loopExceptionWrapper([r.c EXCEPT !.sendLoop = "done"], FailedToCancel)
            ELSE [r.c EXCEPT !.sendLoop = "cancelOutgoingMessage",
                             !.msgNumbers = IF r.result
                                            THEN @ \cup {c.outs[message].messageNumber}
                                            ELSE @])

\* Send loop, "Get the outgoing messages to send": the DataFrameControl
\* objects of this iteration
\* A send loop that asks the queue for whole messages, whatever the budget.
RECURSIVE getDataFramesUnbounded(_, _)
getDataFramesUnbounded(conn0, dataFrames) ==
  Once(conn0, LAMBDA c :
    IF c.bytesRemaining > 0 /\ Len(dataFrames) < MaxDataFrames
    THEN LET next == SQGetNext(c.sendQueue, c.outs, c.msgs, MaxLen)
             message == next.message
             frameLength == next.bytesToSend
         IN IF message = 0
            THEN [c |-> [c EXCEPT !.sendQueue = next.sq], dataFrames |-> dataFrames]
            ELSE getDataFramesUnbounded(
                   [c EXCEPT !.sendQueue = next.sq,
                             !.outs[message].bytesSent = @ + frameLength,
                             !.bytesRemaining = @ - frameLength],
                   Append(dataFrames,
                          [out |-> message,
                           offset |-> c.outs[message].bytesSent,
                           length |-> c.outs[message].length,
                           messageNumber |-> c.outs[message].messageNumber,
                           isFirst |-> c.outs[message].bytesSent = 0,
                           isLast |-> BytesRemaining(c.outs, message) = frameLength,
                           frameLength |-> frameLength]))
    ELSE [c |-> c, dataFrames |-> dataFrames])

\* A send loop that marks the first descriptor of a group, not of a message.
RECURSIVE getDataFramesFirstOfGroup(_, _)
getDataFramesFirstOfGroup(conn0, dataFrames) ==
  Once(conn0, LAMBDA c :
    IF c.bytesRemaining > 0 /\ Len(dataFrames) < MaxDataFrames
    THEN LET next == SQGetNext(c.sendQueue, c.outs, c.msgs, c.bytesRemaining)
             message == next.message
             frameLength == next.bytesToSend
         IN IF message = 0
            THEN [c |-> [c EXCEPT !.sendQueue = next.sq], dataFrames |-> dataFrames]
            ELSE getDataFramesFirstOfGroup(
                   [c EXCEPT !.sendQueue = next.sq,
                             !.outs[message].bytesSent = @ + frameLength,
                             !.bytesRemaining = @ - frameLength],
                   Append(dataFrames,
                          [out |-> message,
                           offset |-> c.outs[message].bytesSent,
                           length |-> c.outs[message].length,
                           messageNumber |-> c.outs[message].messageNumber,
                           isFirst |-> dataFrames = <<>>,
                           isLast |-> BytesRemaining(c.outs, message) = frameLength,
                           frameLength |-> frameLength]))
    ELSE [c |-> c, dataFrames |-> dataFrames])

RECURSIVE getDataFrames(_, _)
getDataFrames(conn0, dataFrames) ==
  Once(conn0, LAMBDA c :
    IF c.bytesRemaining > 0 /\ Len(dataFrames) < MaxDataFrames
    THEN LET next == SQGetNext(c.sendQueue, c.outs, c.msgs, c.bytesRemaining)
             message == next.message
             frameLength == next.bytesToSend
         IN IF message = 0
            THEN [c |-> [c EXCEPT !.sendQueue = next.sq], dataFrames |-> dataFrames]
            ELSE getDataFrames(
                   [c EXCEPT !.sendQueue = next.sq,
                             !.outs[message].bytesSent = @ + frameLength,
                             !.bytesRemaining = @ - frameLength],
                   Append(dataFrames,
                          [out |-> message,
                           offset |-> c.outs[message].bytesSent,
                           length |-> c.outs[message].length,
                           messageNumber |-> c.outs[message].messageNumber,
                           isFirst |-> c.outs[message].bytesSent = 0,
                           isLast |-> BytesRemaining(c.outs, message) = frameLength,
                           frameLength |-> frameLength]))
    ELSE [c |-> c, dataFrames |-> dataFrames])

\* What DataFrameControl.write puts on the wire for a descriptor
Descriptor(d) ==
  [offset |-> d.offset, length |-> d.length, messageNumber |-> d.messageNumber,
   isFirst |-> d.isFirst, isLast |-> d.isLast]

Descriptors(dataFrames) == [n \in 1..Len(dataFrames) |-> Descriptor(dataFrames[n])]

\* A send loop that keeps the message number of a message it has sent.
RECURSIVE sendDataFramesHolding(_, _)
sendDataFramesHolding(conn0, dataFrames) ==
  Once(conn0, LAMBDA c :
    IF dataFrames = <<>> THEN c
    ELSE sendDataFramesHolding(sendFrameAsync(c, DataFrame(Head(dataFrames))),
                               Tail(dataFrames)))

\* A send loop that gives the message number back without _messageNumberEvent.set().
RECURSIVE sendDataFramesSilent(_, _)
sendDataFramesSilent(conn0, dataFrames) ==
  Once(conn0, LAMBDA c :
    IF dataFrames = <<>> THEN c
    ELSE LET d == Head(dataFrames)
             c1 == IF d.isLast
                   THEN [c EXCEPT !.sendMessageNumbers = Append(@, d.messageNumber),
                                  !.outs[d.out].holding = FALSE]
                   ELSE c
         IN sendDataFramesSilent(sendFrameAsync(c1, DataFrame(d)), Tail(dataFrames)))

\* The data frames in the opposite order.
RECURSIVE sendDataFramesBackwards(_, _)
sendDataFramesBackwards(conn0, dataFrames) ==
  Once(conn0, LAMBDA c :
    IF dataFrames = <<>> THEN c
    ELSE LET d == dataFrames[Len(dataFrames)]
             c1 == IF d.isLast
                   THEN SetMessageNumberEvent(
                          [c EXCEPT !.sendMessageNumbers = Append(@, d.messageNumber),
                                    !.outs[d.out].holding = FALSE])
                   ELSE c
         IN sendDataFramesBackwards(sendFrameAsync(c1, DataFrame(d)),
                                    SubSeq(dataFrames, 1, Len(dataFrames) - 1)))

\* Send loop, "Send the data frames": the number of a message whose last
\* frame this is goes back to the pool
RECURSIVE sendDataFrames(_, _)
sendDataFrames(conn0, dataFrames) ==
  Once(conn0, LAMBDA c :
    IF dataFrames = <<>> THEN c
    ELSE LET d == Head(dataFrames)
             c1 == IF d.isLast
                   THEN SetMessageNumberEvent(
                          [c EXCEPT !.sendMessageNumbers = Append(@, d.messageNumber),
                                    !.outs[d.out].holding = FALSE])
                   ELSE c
         IN sendDataFrames(sendFrameAsync(c1, DataFrame(d)), Tail(dataFrames)))

\* The whenAny call that ends an iteration of the send loop
sendLoopWhenAny(conn0) ==
  Once(conn0, LAMBDA c :
    IF c.bytesRemaining > 0
    THEN IF c.dataToSendEvent THEN [c EXCEPT !.dataToSendEvent = FALSE, !.sendLoop = "resumed"]
         ELSE IF c.pingEvent THEN [c EXCEPT !.sendLoop = "resumed"]
         ELSE IF c.pongEvent THEN [c EXCEPT !.pongEvent = FALSE, !.sendLoop = "resumed"]
         ELSE IF c.isClosing THEN [c EXCEPT !.sendLoop = "resumed"]
         ELSE [c EXCEPT !.sendLoop = "whenAnyData"]
    ELSE IF c.resetBytesRemainingEvent THEN [c EXCEPT !.sendLoop = "resumed"]
         ELSE IF c.pongEvent THEN [c EXCEPT !.pongEvent = FALSE, !.sendLoop = "resumed"]
         ELSE IF c.isClosing THEN [c EXCEPT !.sendLoop = "resumed"]
         ELSE [c EXCEPT !.sendLoop = "whenAnyReset"])

\* Send loop from "Get the outgoing messages to send" to the await that ends
\* the iteration
sendLoopData(conn0) ==
  Once(conn0, LAMBDA c :
    LET got == getDataFrames(c, <<>>)
        sent == IF got.dataFrames # <<>>
                THEN sendDataFrames(
                       sendControlFrame(got.c, Len(got.dataFrames), Descriptors(got.dataFrames)),
                       got.dataFrames)
                ELSE got.c
    IN sendLoopWhenAny(sent))

\* A ping section that closes only when the count exceeds the threshold.
sendLoopPingLenient(conn0) ==
  Once(conn0, LAMBDA c :
    IF c.pingEvent
    THEN IF ~c.pingResponseTimer
         THEN sendLoopData([sendControlFrame(c, 16, <<>>)
                              EXCEPT !.pingResponseTimer = TRUE, !.pingEvent = FALSE])
         ELSE IF c.missedPingCount + 1 > MissedPingCount
         THEN forceClose([c EXCEPT !.missedPingCount = @ + 1, !.sendLoop = "done"],
                         "Remote side did not respond to a ping")
         ELSE sendLoopData([c EXCEPT !.missedPingCount = @ + 1, !.pingEvent = FALSE])
    ELSE sendLoopData(c))

\* Send loop, the ping section, then the rest of the iteration
sendLoopPing(conn0) ==
  Once(conn0, LAMBDA c :
    IF c.pingEvent
    THEN IF ~c.pingResponseTimer
         THEN sendLoopData([sendControlFrame(c, 16, <<>>)
                              EXCEPT !.pingResponseTimer = TRUE, !.pingEvent = FALSE])
         ELSE IF c.missedPingCount + 1 >= MissedPingCount
         THEN forceClose([c EXCEPT !.missedPingCount = @ + 1, !.sendLoop = "done"],
                         "Remote side did not respond to a ping")
         ELSE sendLoopData([c EXCEPT !.missedPingCount = @ + 1, !.pingEvent = FALSE])
    ELSE sendLoopData(c))

\* Send loop, the cancellations
sendLoopCancel(conn0) ==
  Once(conn0, LAMBDA c :
    IF c.outgoingMessagesToCancel # <<>>
    THEN cancelOutgoingMessages([c EXCEPT !.msgNumbers = {}])
    ELSE sendLoopPing(c))

\* A send loop that sends its capabilities only after some other frame.
sendLoopTopLate(conn0) ==
  Once(conn0, LAMBDA c :
    IF c.isClosing THEN [c EXCEPT !.sendLoop = "done"]
    ELSE LET c1 == IF c.resetBytesRemainingEvent
                   THEN [c EXCEPT !.bytesRemaining = BytesPerIteration,
                                  !.resetBytesRemainingEvent = FALSE]
                   ELSE c
             c2 == IF c1.sendPong
                   THEN [sendControlFrame(c1, 17, <<>>) EXCEPT !.sendPong = FALSE]
                   ELSE c1
         IN IF c2.sendCapabilities /\ c2.socket.first # NoFrame
            THEN [sendControlFrame(c2, 0, LocalCapabilities) EXCEPT !.sendLoop = "sendCapabilities"]
            ELSE sendLoopCancel(c2))

\* Send loop from the test of its while loop: the budget, the pong, the
\* capabilities
sendLoopTop(conn0) ==
  Once(conn0, LAMBDA c :
    IF c.isClosing THEN [c EXCEPT !.sendLoop = "done"]
    ELSE LET c1 == IF c.resetBytesRemainingEvent
                   THEN [c EXCEPT !.bytesRemaining = BytesPerIteration,
                                  !.resetBytesRemainingEvent = FALSE]
                   ELSE c
             c2 == IF c1.sendPong
                   THEN [sendControlFrame(c1, 17, <<>>) EXCEPT !.sendPong = FALSE]
                   ELSE c1
         IN IF c2.sendCapabilities
            THEN [sendControlFrame(c2, 0, LocalCapabilities) EXCEPT !.sendLoop = "sendCapabilities"]
            ELSE sendLoopCancel(c2))

\* Connection._sendLoop from one await to the next
sendLoop(conn0) ==
  Once(conn0, LAMBDA c :
    IF c.sendLoop = "resumed" THEN sendLoopTop(c)
    ELSE IF c.sendLoop = "sendCapabilities"
    THEN sendLoopCancel([c EXCEPT !.capabilitiesSent = TRUE, !.sendCapabilities = FALSE])
    ELSE IF c.sendLoop = "cancelOutgoingMessage" THEN cancelOutgoingMessages(c)
    ELSE sendLoopPing(c))

\* ------------------------------------------------------------ construction

\* The fields before the constructor starts the loops: the locals of the send
\* loop are those of its first lines
Constructed(config) ==
  [config |-> config, closeReason |-> "", isClosing |-> FALSE, logged |-> {},
   socket |-> [queue |-> <<>>, isClosed |-> FALSE, dropMessages |-> FALSE, closeCalls |-> 0,
               first |-> NoFrame],
   receiveLoop |-> "receiveFrameAsync",
   expectedDataFrames |-> <<>>, expectedDataFrame |-> <<>>,
   receivedMessages |-> [n \in 0..(ReceivedMessagesLength - 1) |-> 0],
   receivedMessagesCount |-> 0,
   dispatchQueue |-> <<>>, dispatchEvent |-> FALSE, dispatchLoop |-> "notStarted",
   sendQueue |-> SQNew,
   outgoingMessagesToCancel |-> <<>>, dataToSendEvent |-> FALSE,
   sendPong |-> FALSE, pongEvent |-> FALSE,
   sendCapabilities |-> TRUE, capabilitiesSent |-> FALSE,
   negotiatedCapabilities |-> ZeroCapabilities,
   sendMessageNumbers |-> [n \in 1..config.maxConcurrentMessages |-> n - 1],
   messageNumberEvent |-> FALSE, messageNumberWaiters |-> <<>>,
   pingResponseTimer |-> FALSE, missedPingCount |-> 0,
   sendLoop |-> "resumed", bytesRemaining |-> 0,
   resetBytesRemainingEvent |-> TRUE, pingEvent |-> TRUE, msgNumbers |-> {},
   outs |-> <<>>, msgs |-> <<>>,
   calls |-> [i \in 1..MaxCalls |-> IdleCall],
   pings |-> 0, throws |-> 0, unanswered |-> 0, closes |-> 0,
   capableReceived |-> FALSE, peerFrames |-> 0]

\* new Connection(socket): the receive loop and then the send loop run up to
\* their first await
Constructor(config) == sendLoopTop(receiveLoopTop(Constructed(config)))

\* new Connection(socket, config, name, false): the other end is taken to be
\* legacy
ConstructorLegacy(config) ==
  sendLoopTop(receiveLoopTop([Constructed(config) EXCEPT !.sendCapabilities = FALSE]))

\* new Connection(socket) on a simulator with dropMessages = true
ConstructorDropping(config) ==
  sendLoopTop(receiveLoopTop([Constructed(config) EXCEPT !.socket.dropMessages = TRUE]))

NoneApplied == [fn |-> "none"]

NoCall == [op |-> "none", message |-> 0, expected |-> 0, owed |-> 0, lowered |-> FALSE,
           frames |-> <<>>]

\* The configuration with the smallest pool of message numbers
Init ==
  /\ conn = Constructor([maxConcurrentMessages |-> MaxConcurrentMessages])
  /\ sqLast = NoCall
  /\ applied = NoneApplied

\* The configuration with a pool that lets two messages travel together
InitPair ==
  /\ conn = Constructor([maxConcurrentMessages |-> PairConcurrentMessages])
  /\ sqLast = NoCall
  /\ applied = NoneApplied

\* ----------------------------------------------------------------- actions

\* The payloads the application sends: short urgent ones, long bulk ones
Sendable == {[length |-> 1, priority |-> 0],
             [length |-> MaxLen, priority |-> PriorityLevels - 1]}

Pending(c) == {i \in 1..MaxCalls : c.calls[i].pc # "idle"}

\* A send() call can be made: a slot for it, and room for its OutgoingMessage
CanCall(conn0) ==
  Once(conn0, LAMBDA c :
    /\ Pending(c) # 1..MaxCalls
    /\ Len(c.outs) + Cardinality(Pending(c)) < MaxOut)

FreeCall(conn0) ==
  Once(conn0, LAMBDA c :
    CHOOSE i \in 1..MaxCalls : c.calls[i].pc = "idle" /\
                   \A j \in 1..MaxCalls : c.calls[j].pc = "idle" => i <= j)

\* The application sends a new message
Send ==
  \E input \in Sendable :
    /\ CanCall(conn)
    /\ conn' = send(conn, FreeCall(conn), 0, input.length, input.priority)
    /\ UNCHANGED <<sqLast, applied>>

\* The application forwards an incoming message it was told about, with the
\* priority it gives to payloads of that length
Forward ==
  \E m \in 1..Len(conn.msgs), input \in Sendable :
    /\ "NewMessage" \in conn.msgs[m].delivered
    /\ input.length = conn.msgs[m].length
    /\ CanCall(conn)
    /\ conn' = send(conn, FreeCall(conn), m, input.length, input.priority)
    /\ UNCHANGED <<sqLast, applied>>

\* A blocked send() call goes on
SendResumed ==
  \E i \in 1..MaxCalls :
    /\ conn.calls[i].pc = "resumed"
    /\ conn' = sendResumed(conn, i)
    /\ UNCHANGED <<sqLast, applied>>

\* The application cancels an OutgoingMessage send() returned
Cancel ==
  \E o \in 1..Len(conn.outs) :
    /\ ~conn.outs[o].cancelCalled
    /\ conn' = cancel(conn, o)
    /\ UNCHANGED <<sqLast, applied>>

\* The application cancels an OutgoingMessage it has cancelled before, once
\* the earlier request has been taken from _outgoingMessagesToCancel
CancelAgain ==
  \E o \in 1..Len(conn.outs) :
    /\ conn.outs[o].cancelCalled
    /\ ~InSeq(conn.outgoingMessagesToCancel, o)
    /\ conn.sendLoop # "done"
    /\ conn' = cancel(conn, o)
    /\ UNCHANGED <<sqLast, applied>>

\* The application closes the connection
ForceClose ==
  /\ conn.closeReason = ""
  /\ conn' = forceClose(conn, "closed by the application")
  /\ UNCHANGED <<sqLast, applied>>

\* The reasons the application gives to forceClose
Reasons == {"", "closed by the application", "closed again"}

\* The application calls forceClose, whatever the state of the connection;
\* `closes` counts these calls
ForceCloseWith ==
  \E reason \in Reasons :
    /\ conn.closes < MaxCloses
    /\ conn' = forceClose([conn EXCEPT !.closes = @ + 1], reason)
    /\ UNCHANGED <<sqLast, applied>>

\* Connection.waitClose once _isClosing is set: the reason it returns
waitClose(c) == c.closeReason

\* Connection.beginDispatch: the dispatch loop runs up to its first await
BeginDispatch ==
  \E throwAt \in 0..Len(conn.dispatchQueue) :
    /\ conn.dispatchLoop = "notStarted"
    /\ throwAt > 0 => conn.throws < MaxThrows
    /\ conn' = dispatchLoop(conn, throwAt, 1)
    /\ UNCHANGED <<sqLast, applied>>

DispatchLoop ==
  \E throwAt \in 0..Len(conn.dispatchQueue) :
    /\ conn.dispatchLoop = "resumed"
    /\ throwAt > 0 => conn.throws < MaxThrows
    /\ conn' = dispatchLoop(conn, throwAt, 1)
    /\ UNCHANGED <<sqLast, applied>>

\* receiveFrameAsync returns: a frame is there, or the socket is closed
ReceiveLoop ==
  /\ conn.receiveLoop = "receiveFrameAsync"
  /\ conn.socket.isClosed \/ conn.socket.queue # <<>>
  /\ conn' = receiveLoop(conn)
  /\ UNCHANGED <<sqLast, applied>>

SendLoop ==
  /\ conn.sendLoop \in {"resumed", "sendCapabilities", "cancelOutgoingMessage",
                        "cancelOutgoingMessages"}
  /\ conn' = sendLoop(conn)
  /\ UNCHANGED <<sqLast, applied>>

\* The AsyncTimerEvent behind resetBytesRemainingEvent expires.  The timers
\* run for tens of milliseconds and the stretches of code for none: a timer
\* is taken to expire while the send loop waits for it.
ResetBytesRemainingTimer ==
  /\ ~conn.resetBytesRemainingEvent
  /\ conn.sendLoop = "whenAnyReset"
  /\ conn' = [conn EXCEPT !.resetBytesRemainingEvent = TRUE, !.sendLoop = "resumed"]
  /\ UNCHANGED <<sqLast, applied>>

\* The AsyncTimerEvent behind pingEvent expires; `unanswered` counts the
\* expiries that found a ping outstanding since the last pong was received
PingTimer ==
  /\ ~conn.pingEvent
  /\ conn.sendLoop = "whenAnyData"
  /\ conn.pings < MaxPings
  /\ conn' = [conn EXCEPT !.pingEvent = TRUE, !.pings = @ + 1, !.sendLoop = "resumed",
                          !.unanswered = IF conn.pingResponseTimer THEN @ + 1 ELSE @]
  /\ UNCHANGED <<sqLast, applied>>

\* A connection the application may close at any time; the only ping is the
\* one the send loop starts with
Next ==
  \/ Send \/ Forward \/ SendResumed \/ Cancel \/ ForceClose
  \/ BeginDispatch \/ DispatchLoop \/ ReceiveLoop \/ SendLoop
  \/ ResetBytesRemainingTimer

Spec == Init /\ [][Next]_vars

\* A connection the application leaves open, with the ping timer running and
\* message numbers for two messages at a time.  No send() ever waits for a
\* message number here (there are as many numbers as messages sent), so no
\* call is there to resume.
NextPair ==
  \/ Send \/ Forward \/ Cancel
  \/ BeginDispatch \/ DispatchLoop \/ ReceiveLoop \/ SendLoop
  \/ ResetBytesRemainingTimer \/ PingTimer

SpecPair == InitPair /\ [][NextPair]_vars

\* An application that sends new messages and cancels them, also more than once
NextCancel ==
  \/ Send \/ SendResumed \/ Cancel \/ CancelAgain
  \/ BeginDispatch \/ DispatchLoop \/ ReceiveLoop \/ SendLoop
  \/ ResetBytesRemainingTimer

SpecCancel == Init /\ [][NextCancel]_vars

\* An application that sends and calls forceClose, also more than once
NextClose ==
  \/ Send \/ SendResumed \/ ForceCloseWith
  \/ BeginDispatch \/ DispatchLoop \/ ReceiveLoop \/ SendLoop
  \/ ResetBytesRemainingTimer

SpecClose == Init /\ [][NextClose]_vars

\* The capabilities frames the other end may send: those of a library that
\* knows no capability, of one that knows message cancellation only, and of
\* the current one
PeerCapabilities ==
  {[majorVersion |-> 1, minorVersion |-> 0, capabilities1 |-> {}],
   [majorVersion |-> 1, minorVersion |-> 0, capabilities1 |-> {CancelMessage}],
   LocalCapabilities}

\* A capabilities frame of the other end arrives at the socket
PeerSendsCapabilities ==
  \E data \in PeerCapabilities :
    /\ conn.peerFrames < MaxPeerFrames
    /\ ~conn.socket.isClosed
    /\ conn' = [conn EXCEPT !.peerFrames = @ + 1,
                            !.socket.queue =
                               Append(@, [kind |-> "control", opCode |-> 0, data |-> data])]
    /\ UNCHANGED <<sqLast, applied>>

\* A connection constructed with sendCapabilities = false
InitLegacy ==
  /\ conn = ConstructorLegacy([maxConcurrentMessages |-> MaxConcurrentMessages])
  /\ sqLast = NoCall
  /\ applied = NoneApplied

\* The application sends and does not start the dispatch loop
NextLegacy ==
  \/ Send \/ SendResumed \/ PeerSendsCapabilities
  \/ ReceiveLoop \/ SendLoop
  \/ ResetBytesRemainingTimer

SpecLegacy == InitLegacy /\ [][NextLegacy]_vars

\* An application that sends, forwards and closes but never cancels
NextPlain ==
  \/ Send \/ Forward \/ SendResumed \/ ForceClose
  \/ BeginDispatch \/ DispatchLoop \/ ReceiveLoop \/ SendLoop
  \/ ResetBytesRemainingTimer

\* What the event loop of the runtime does by itself: the continuations that
\* are ready and the timer that is due
Run ==
  \/ SendResumed \/ DispatchLoop \/ ReceiveLoop \/ SendLoop
  \/ ResetBytesRemainingTimer

\* The event loop does not stop while something is ready to run
FairSpec == Init /\ [][NextPlain]_vars /\ WF_vars(Run)

\* A connection that is left open, on a socket that may drop every frame
InitPing ==
  /\ conn \in {Constructor([maxConcurrentMessages |-> MaxConcurrentMessages]),
               ConstructorDropping([maxConcurrentMessages |-> MaxConcurrentMessages])}
  /\ sqLast = NoCall
  /\ applied = NoneApplied

NextPing ==
  \/ Send \/ SendResumed
  \/ BeginDispatch \/ DispatchLoop \/ ReceiveLoop \/ SendLoop
  \/ ResetBytesRemainingTimer \/ PingTimer

\* The event loop does not stop while something is ready to run, and the ping
\* timer expires
SpecPing == InitPing /\ [][NextPing]_vars /\ WF_vars(Run) /\ WF_vars(PingTimer)

TypeOK == conn.sendLoop \in {"resumed", "sendCapabilities", "cancelOutgoingMessage",
                             "cancelOutgoingMessages", "whenAnyData", "whenAnyReset", "done"}

\* ------------------------------------------------------ SendQueue by itself
\* The SendQueue of a connection whose loops are not running, called the way
\* the send loop and the unit tests call it.  sqLast keeps the last call:
\* what it returned, what it should have returned, and the message a
\* preceding enqueue has made the next one to come out (owed).

\* The levels whose head has payload ready
ReadyLevels(sq, os, ms) ==
  {p \in 0..(PriorityLevels - 1) :
     sq.queues[p].items # <<>> /\ BytesReady(os, ms, Head(sq.queues[p].items)) > 0}

LowestOf(S) == CHOOSE p \in S : \A q \in S : p <= q

\* The head of the lowest-numbered level whose head has payload ready, 0 if
\* there is no such level
ExpectedNext(sq, os, ms) ==
  IF ReadyLevels(sq, os, ms) = {} THEN 0
  ELSE Head(sq.queues[LowestOf(ReadyLevels(sq, os, ms))].items)

\* `priority` is numerically lower than the priority of every queued message
LowerThanAllQueued(sq, os, priority) ==
  \A q \in SQQueued(sq) : priority < os[q].priority

\* The message a getNext called now has to return because of an enqueue, and
\* whether that enqueue found the cursor above the priority of the message
Owed == IF sqLast.op = "enqueue" THEN sqLast.owed ELSE 0

Lowered == sqLast.op = "enqueue" /\ sqLast.lowered

InitSQ ==
  /\ conn = Constructed([maxConcurrentMessages |-> MaxConcurrentMessages])
  /\ sqLast = NoCall
  /\ applied = NoneApplied

\* enqueue(new OutgoingMessage(...)) of a message that has all of its payload
\* or of a forwarded message that has none of it yet
SQH_Enqueue ==
  \E priority \in 0..(PriorityLevels - 1), length \in 1..MaxLen, forwarded \in BOOLEAN :
    LET o == Len(conn.outs) + 1
        src == IF forwarded THEN Len(conn.msgs) + 1 ELSE 0
        owes == ~forwarded /\ LowerThanAllQueued(conn.sendQueue, conn.outs, priority)
        keeps == ~owes /\ Owed # 0 /\ conn.outs[Owed].priority <= priority
    IN /\ Len(conn.outs) < MaxOut
       /\ conn' = [conn EXCEPT
                     !.msgs = IF forwarded THEN Append(@, NewMsg(length)) ELSE @,
                     !.outs = Append(@, NewOut(0, src, length, priority)),
                     !.sendQueue = SQEnqueue(@, o, priority)]
       /\ sqLast' = [NoCall EXCEPT
                       !.op = "enqueue", !.message = o,
                       !.owed = IF owes THEN o ELSE IF keeps THEN Owed ELSE 0,
                       !.lowered = IF owes THEN conn.sendQueue.highestPriority > priority
                                   ELSE keeps /\ Lowered]
       /\ UNCHANGED applied

\* A byte of the payload of a forwarded message arrives
SQH_Payload ==
  \E m \in 1..Len(conn.msgs) :
    /\ conn.msgs[m].bytesReceived < conn.msgs[m].length
    /\ conn' = [conn EXCEPT !.msgs[m].bytesReceived = @ + 1]
    /\ sqLast' = [NoCall EXCEPT !.op = IF Owed # 0 THEN "enqueue" ELSE "payload",
                                !.owed = Owed, !.lowered = Lowered]
    /\ UNCHANGED applied

\* getNext(maxBytes), and the bytes it hands out counted as sent
SQH_GetNext ==
  \E maxBytes \in 1..MaxLen :
    LET next == SQGetNext(conn.sendQueue, conn.outs, conn.msgs, maxBytes) IN
    /\ conn.outs # <<>>
    /\ conn' = [conn EXCEPT
                  !.sendQueue = next.sq,
                  !.outs = IF next.message = 0 THEN @
                           ELSE [@ EXCEPT ![next.message].bytesSent = @ + next.bytesToSend]]
    /\ sqLast' = [NoCall EXCEPT
                    !.op = "getNext", !.message = next.message,
                    !.expected = ExpectedNext(conn.sendQueue, conn.outs, conn.msgs),
                    !.owed = Owed, !.lowered = Lowered]
    /\ UNCHANGED applied

\* The getNext loop of one iteration of the send loop, with a budget of bytes
SQH_GetDataFrames ==
  \E budget \in 1..MaxLen :
    LET got == getDataFrames([conn EXCEPT !.bytesRemaining = budget], <<>>) IN
    /\ conn.outs # <<>>
    /\ conn' = [got.c EXCEPT !.bytesRemaining = 0]
    /\ sqLast' = [NoCall EXCEPT !.op = "getDataFrames", !.frames = got.dataFrames]
    /\ UNCHANGED applied

\* cancel(message)
SQH_Cancel ==
  \E o \in 1..Len(conn.outs) :
    LET r == SQCancel(conn.sendQueue, conn.outs, o) IN
    /\ ~conn.outs[o].cancelCalled
    /\ conn' = [conn EXCEPT !.sendQueue = r.sq,
                            !.outs[o].cancelCalled = r.ok]
    /\ sqLast' = [NoCall EXCEPT !.op = IF r.ok THEN "cancel" ELSE "cancelFailed",
                                !.message = o]
    /\ UNCHANGED applied

NextSQ == SQH_Enqueue \/ SQH_Payload \/ SQH_GetNext \/ SQH_GetDataFrames \/ SQH_Cancel

SpecSQ == InitSQ /\ [][NextSQ]_vars

\* --------------------------------------------------- the budget by itself
\* The estimates the peer reports, the percentages and the MTUs of the
\* configurations the budget is computed for
Estimates == {0, 1, 500, 1000, 1398, 2796, 131072}

Percents == {0, 1, 50, 75, 100}

Mtus == {1, 2, 1398}

InitBudget ==
  /\ conn = Constructed([maxConcurrentMessages |-> MaxConcurrentMessages])
  /\ sqLast = NoCall
  /\ applied \in [fn : {"none"}, outboundThroughputEstimate : Estimates,
                   maxPercentThroughput : Percents, singlePacketMtu : Mtus,
                   bytesRemaining : {0}]

\* The send loop finds resetBytesRemainingEvent set
ResetBytesRemaining ==
  /\ applied.fn = "none"
  /\ applied' = [applied EXCEPT
                   !.fn = "bytesPerIteration",
                   !.bytesRemaining = bytesPerIteration(applied.outboundThroughputEstimate,
                                                       applied.maxPercentThroughput,
                                                       TargetResponsiveness,
                                                       applied.singlePacketMtu)]
  /\ UNCHANGED <<conn, sqLast>>

SpecBudget == InitBudget /\ [][ResetBytesRemaining]_vars

\* ------------------------------------------------- negotiate by itself
\* The capabilities objects negotiate is applied to: versions below, at and
\* above the local one, and every set of the bits of a bitmask with a bit
\* the local library does not know
Versions == {0, 1, 2}

Bits == {Capabilities, CancelMessage, 4}

CapabilitiesObjects ==
  [majorVersion : Versions, minorVersion : Versions, capabilities1 : SUBSET Bits]

InitNegotiate ==
  /\ conn = Constructed([maxConcurrentMessages |-> MaxConcurrentMessages])
  /\ sqLast = NoCall
  /\ applied \in [fn : {"none"}, caps1 : CapabilitiesObjects, caps2 : CapabilitiesObjects,
                   result : {ZeroCapabilities}, swapped : {ZeroCapabilities}]

\* TransportCapabilities.negotiate(caps1, caps2) and negotiate(caps2, caps1)
Negotiate ==
  /\ applied.fn = "none"
  /\ applied' = [applied EXCEPT !.fn = "negotiate",
                                !.result = negotiate(applied.caps1, applied.caps2),
                                !.swapped = negotiate(applied.caps2, applied.caps1)]
  /\ UNCHANGED <<conn, sqLast>>

SpecNegotiate == InitNegotiate /\ [][Negotiate]_vars

\* ------------------------------------------- the control frame by itself
\* ControlFrame.write and ControlFrame.read on the bytes of a frame.  A
\* frame is [opCode, rttEstimate, throughputEstimate, data]; the bytes are a
\* sequence of numbers 0..255, byte k of the Uint8Array being element k + 1.
\* A 32-bit word is handled byte by byte, as BinaryConverter does.

Pow2(n) == IF n = 0 THEN 1 ELSE 2 ^ n

\* BinaryConverter.writeUInt16
writeUInt16(value) == <<(value \div 256) % 256, value % 256>>

\* BinaryConverter.writeInt32 of a value that is not negative
writeInt32(value) ==
  <<(value \div 16777216) % 256, (value \div 65536) % 256, (value \div 256) % 256,
    value % 256>>

\* buffer[index] of a Uint8Array made over the zero-filled buffer of
\* ControlFrame.maxLength bytes the frame was written to
ByteAt(bytes, index) == IF index + 1 <= Len(bytes) THEN bytes[index + 1] ELSE 0

\* BinaryConverter.readUInt16
readUInt16(bytes, startIndex) == ByteAt(bytes, startIndex) * 256 + ByteAt(bytes, startIndex + 1)

\* The low 24 bits of the word BinaryConverter.readInt32 returns
readLow24(bytes, startIndex) ==
  ByteAt(bytes, startIndex + 1) * 65536 + ByteAt(bytes, startIndex + 2) * 256
    + ByteAt(bytes, startIndex + 3)

\* The byte that holds bits base .. base + 7 of the bitmask `bits`, a
\* bitmask being the set of the positions of its bits
RECURSIVE MaskByte(_, _, _)
MaskByte(bits, base, n) ==
  IF n = 8 THEN 0
  ELSE (IF base + n \in bits THEN Pow2(n) ELSE 0) + MaskByte(bits, base, n + 1)

\* The positions base .. base + 7 of the bits of `byte`
ByteMask(byte, base) == {base + n : n \in {k \in 0..7 : (byte \div Pow2(k)) % 2 = 1}}

\* The positions of the bits of the values of TransportCapabilities1
BitPositions(capabilities1) ==
  {n \in 0..7 : Pow2(n) \in capabilities1}

\* TransportCapabilities.write: 8 bytes
TransportCapabilitiesWrite(data) ==
  writeUInt16(data.majorVersion) \o writeUInt16(data.minorVersion)
    \o <<0, 0, 0, MaskByte(BitPositions(data.capabilities1), 0, 0)>>

\* TransportCapabilities.read
TransportCapabilitiesRead(bytes, startIndex) ==
  [majorVersion |-> readUInt16(bytes, startIndex),
   minorVersion |-> readUInt16(bytes, startIndex + 2),
   capabilities1 |-> {Pow2(n) : n \in ByteMask(ByteAt(bytes, startIndex + 7), 0)}]

\* MessageCancelControl.write of the bitmask: 2 bytes
MessageCancelControlBytes(messageNumbers) ==
  <<MaskByte(messageNumbers, 8, 0), MaskByte(messageNumbers, 0, 0)>>

\* MessageCancelControl.read
MessageCancelControlRead(bytes, startIndex) ==
  ByteMask(ByteAt(bytes, startIndex), 8) \cup ByteMask(ByteAt(bytes, startIndex + 1), 0)

\* DataFrameControl.write: the message number and the two flags go to the
\* upper 6 bits of the offset word, the header length, cut to 6 bits, to the
\* upper 6 bits of the length word; the header follows.  The number of bytes
\* written is the length of the result: headerLength + 8.
DataFrameControlWrite(d) ==
  LET offset == d.offset % 67108864
      length == d.length % 67108864
      headerLength == Len(d.header)
      lengthBits == IF headerLength > 0 THEN headerLength % 64 ELSE 0
  IN <<(d.messageNumber % 16) * 16 + (IF d.isFirst THEN 8 ELSE 0)
          + (IF d.isLast THEN 4 ELSE 0) + (offset \div 16777216),
       (offset \div 65536) % 256, (offset \div 256) % 256, offset % 256,
       lengthBits * 4 + (length \div 16777216),
       (length \div 65536) % 256, (length \div 256) % 256, length % 256>>
     \o d.header

\* DataFrameControl.read: the descriptor, and the number of bytes read
DataFrameControlRead(bytes, startIndex) ==
  LET top0 == ByteAt(bytes, startIndex)
      top1 == ByteAt(bytes, startIndex + 4)
      headerLength == top1 \div 4
  IN [d |-> [messageNumber |-> top0 \div 16,
             isFirst |-> (top0 \div 8) % 2 = 1,
             isLast |-> (top0 \div 4) % 2 = 1,
             offset |-> (top0 % 4) * 16777216 + readLow24(bytes, startIndex),
             length |-> (top1 % 4) * 16777216 + readLow24(bytes, startIndex + 4),
             header |-> [k \in 1..headerLength |-> ByteAt(bytes, startIndex + 8 + k - 1)]],
      read |-> headerLength + 8]

\* ControlFrame.write, the loop over the descriptors
RECURSIVE writeDataFrames(_, _)
writeDataFrames(data, n) ==
  IF n > Len(data) THEN <<>>
  ELSE DataFrameControlWrite(data[n]) \o writeDataFrames(data, n + 1)

\* ControlFrame.write
ControlFrameWrite(frame) ==
  <<frame.opCode, 0>> \o writeUInt16(frame.rttEstimate) \o writeInt32(frame.throughputEstimate)
    \o (IF frame.opCode = 0 THEN TransportCapabilitiesWrite(frame.data)
        ELSE IF frame.opCode >= 1 /\ frame.opCode <= 15 THEN writeDataFrames(frame.data, 1)
        ELSE IF frame.opCode = 18 THEN MessageCancelControlBytes(frame.data)
        ELSE <<>>)

\* ControlFrame.read, the loop over the opCode descriptors
RECURSIVE readDataFrames(_, _, _)
readDataFrames(bytes, offset, n) ==
  IF n = 0 THEN <<>>
  ELSE LET r == DataFrameControlRead(bytes, offset)
       IN <<r.d>> \o readDataFrames(bytes, offset + r.read, n - 1)

\* DataView.getInt32, big-endian: the word is read as a signed number
getInt32(bytes, index) ==
  (IF ByteAt(bytes, index) >= 128 THEN ByteAt(bytes, index) - 256 ELSE ByteAt(bytes, index))
    * 16777216 + readLow24(bytes, index)

\* ControlFrame.read; a frame without data has data = <<>>
ControlFrameRead(bytes) ==
  LET opCode == ByteAt(bytes, 0) IN
  [opCode |-> opCode,
   rttEstimate |-> readUInt16(bytes, 2),
   throughputEstimate |-> getInt32(bytes, 4),
   data |-> IF opCode = 0 THEN TransportCapabilitiesRead(bytes, 8)
            ELSE IF opCode >= 1 /\ opCode <= 15 THEN readDataFrames(bytes, 8, opCode)
            ELSE IF opCode = 18 THEN MessageCancelControlRead(bytes, 8)
            ELSE <<>>]

\* The headers of the descriptors: none, one byte, and the longest ones,
\* byte k of a header being k
Header(headerLength) == [k \in 1..headerLength |-> k]

HeaderLengths == {0, 1, 63, 64}

\* 2^26 - 1, the largest offset and length of 26 bits
MaxField == 67108863

DataFrameControls ==
  [messageNumber : {0, 15}, offset : {0, MaxField}, length : {1, MaxField},
   isFirst : BOOLEAN, isLast : BOOLEAN, header : {Header(n) : n \in HeaderLengths}]

\* The descriptor that follows another one in a group
NextDataFrameControl ==
  [messageNumber |-> 5, offset |-> 19000000, length |-> 20000000,
   isFirst |-> FALSE, isLast |-> TRUE, header |-> <<>>]

\* The groups: one descriptor, two, and the most a control frame holds
DataGroups ==
  {<<d>> : d \in DataFrameControls}
    \cup {<<d, NextDataFrameControl>> : d \in DataFrameControls}
    \cup {[n \in 1..MaxDataFrames |-> d] : d \in DataFrameControls}

Estimate == [rttEstimate : {0, 4096, 65535}, throughputEstimate : {0, 123456789}]

\* The control frames the codec is applied to
ControlFrames ==
  {[opCode |-> opCode, rttEstimate |-> e.rttEstimate,
    throughputEstimate |-> e.throughputEstimate, data |-> <<>>] :
       opCode \in {16, 17}, e \in Estimate}
  \cup {[opCode |-> 0, rttEstimate |-> 42, throughputEstimate |-> 12345678, data |-> data] :
          data \in [majorVersion : {0, 3, 65535}, minorVersion : {0, 5},
                    capabilities1 : SUBSET {Capabilities, CancelMessage}]}
  \cup {[opCode |-> 18, rttEstimate |-> 4096, throughputEstimate |-> 123456789,
         data |-> data] : data \in SUBSET {0, 7, 8, 15}}
  \cup {[opCode |-> Len(data), rttEstimate |-> 4096, throughputEstimate |-> 123456789,
         data |-> data] : data \in DataGroups}

InitCodec ==
  /\ conn = Constructed([maxConcurrentMessages |-> MaxConcurrentMessages])
  /\ sqLast = NoCall
  /\ applied \in {[fn |-> "none", frame |-> frame, bytes |-> <<>>, read |-> frame] :
                    frame \in ControlFrames}

\* controlFrame.write()
WriteFrame ==
  /\ applied.fn = "none"
  /\ applied' = [applied EXCEPT !.fn = "write", !.bytes = ControlFrameWrite(applied.frame)]
  /\ UNCHANGED <<conn, sqLast>>

\* new ControlFrame().read(bytes)
ReadFrame ==
  /\ applied.fn = "write"
  /\ applied' = [applied EXCEPT !.fn = "read", !.read = ControlFrameRead(applied.bytes)]
  /\ UNCHANGED <<conn, sqLast>>

SpecCodec == InitCodec /\ [][WriteFrame \/ ReadFrame]_vars

\* ------------------------------------------- the dispatch queue by itself
\* DispatchQueue with its two fields, the Queue and the Set
DQNew == [queue |-> <<>>, set |-> {}]

\* A DispatchQueue.enqueue that does not look at the set.
DQEnqueueAgain(dq, message) ==
  [queue |-> Append(dq.queue, message), set |-> dq.set \cup {message}]

\* DispatchQueue.enqueue
DQEnqueue(dq, message) ==
  IF message \notin dq.set
  THEN [queue |-> Append(dq.queue, message), set |-> dq.set \cup {message}]
  ELSE dq

\* DispatchQueue.dequeue: the queue after the call and the Message returned,
\* 0 for undefined
DQDequeue(dq) ==
  IF dq.queue # <<>>
  THEN [dq |-> [queue |-> Tail(dq.queue), set |-> dq.set \ {Head(dq.queue)}],
        message |-> Head(dq.queue)]
  ELSE [dq |-> dq, message |-> 0]

\* The Message objects handed to the queue
DQMessages == {1, 2, 3}

\* `order` lists the Messages that were enqueued while absent and have not
\* come out yet, oldest first; `before` is the queue before the call and
\* `expected` the oldest Message of `order` before it, 0 if there was none
InitDQ ==
  /\ conn = Constructed([maxConcurrentMessages |-> MaxConcurrentMessages])
  /\ sqLast = NoCall
  /\ applied = [fn |-> "none", dq |-> DQNew, before |-> DQNew, message |-> 0,
                order |-> <<>>, expected |-> 0, ops |-> 0]

DQ_Enqueue ==
  \E message \in DQMessages :
    /\ applied.ops < MaxOps
    /\ applied' = [applied EXCEPT
                     !.fn = "enqueue", !.message = message, !.ops = @ + 1,
                     !.before = applied.dq,
                     !.dq = DQEnqueue(applied.dq, message),
                     !.expected = 0,
                     !.order = IF InSeq(@, message) THEN @ ELSE Append(@, message)]
    /\ UNCHANGED <<conn, sqLast>>

DQ_Dequeue ==
  /\ applied.ops < MaxOps
  /\ applied' = [applied EXCEPT
                   !.fn = "dequeue", !.ops = @ + 1,
                   !.before = applied.dq,
                   !.dq = DQDequeue(applied.dq).dq,
                   !.message = DQDequeue(applied.dq).message,
                   !.expected = IF applied.order = <<>> THEN 0 ELSE Head(applied.order),
                   !.order = IF @ = <<>> THEN @ ELSE Tail(@)]
  /\ UNCHANGED <<conn, sqLast>>

SpecDQ == InitDQ /\ [][DQ_Enqueue \/ DQ_Dequeue]_vars

\* ------------------------------------------------ pings of the other end
\* `applied` notes where the send loop stood when a Ping was processed and
\* not answered yet (waiting), and where it stood for the Pings answered
\* since (answered); a loop with no budget left is noted as "throttled".

InitPong ==
  /\ conn = Constructor([maxConcurrentMessages |-> MaxConcurrentMessages])
  /\ sqLast = NoCall
  /\ applied = [fn |-> "pong", waiting |-> {}, answered |-> {}]

PingFrame == [kind |-> "control", opCode |-> 16, data |-> <<>>]

\* The other end sends a Ping; it arrives behind the frames already sent
PeerSendsPing ==
  /\ conn.peerFrames < MaxPeerFrames
  /\ ~conn.socket.isClosed
  /\ conn' = [conn EXCEPT !.peerFrames = @ + 1, !.socket.queue = Append(@, PingFrame)]
  /\ UNCHANGED <<sqLast, applied>>

\* Where the send loop stands
SendLoopAt(c) ==
  IF c.sendLoop = "whenAnyReset" THEN "throttled" ELSE c.sendLoop

\* The receive loop processes one frame
ReceiveLoopNoting ==
  /\ conn.receiveLoop = "receiveFrameAsync"
  /\ conn.socket.isClosed \/ conn.socket.queue # <<>>
  /\ conn' = receiveLoop(conn)
  /\ applied' = IF /\ ~conn.socket.isClosed
                   /\ conn.expectedDataFrame = <<>>
                   /\ Head(conn.socket.queue) = PingFrame
                THEN [applied EXCEPT !.waiting = @ \cup {SendLoopAt(conn)}]
                ELSE applied
  /\ UNCHANGED sqLast

\* The send loop runs from one await to the next
SendLoopNoting ==
  /\ conn.sendLoop \in {"resumed", "sendCapabilities", "cancelOutgoingMessage",
                        "cancelOutgoingMessages"}
  /\ conn' = sendLoop(conn)
  /\ applied' = IF conn.sendPong /\ ~conn'.sendPong
                THEN [applied EXCEPT !.answered = @ \cup applied.waiting, !.waiting = {}]
                ELSE applied
  /\ UNCHANGED sqLast

\* The application sends one message that takes more than one budget
SendBulk ==
  /\ conn.outs = <<>>
  /\ CanCall(conn)
  /\ conn' = send(conn, FreeCall(conn), 0, MaxLen, PriorityLevels - 1)
  /\ UNCHANGED <<sqLast, applied>>

NextPong ==
  \/ SendBulk \/ PeerSendsPing
  \/ ReceiveLoopNoting \/ SendLoopNoting
  \/ ResetBytesRemainingTimer

\* The event loop runs the continuations that are ready; nothing is assumed
\* of the timers
SpecPong == InitPong /\ [][NextPong]_vars
              /\ WF_vars(ReceiveLoopNoting) /\ WF_vars(SendLoopNoting)

\* ------------------------------------------ data groups of the other end
\* The other end sends Send-Data groups of one descriptor and their data
\* frame, and cancel frames, in any order; the application may close.

\* The descriptors the other end sends: the first, a middle or the last byte
\* of a message of 3 bytes, or a whole message of 1 byte
PeerDescriptors ==
  {[offset |-> IF isFirst THEN 0 ELSE IF isLast THEN 2 ELSE 1,
    length |-> IF isFirst /\ isLast THEN 1 ELSE 3,
    messageNumber |-> messageNumber, isFirst |-> isFirst, isLast |-> isLast] :
     messageNumber \in 0..1, isFirst \in BOOLEAN, isLast \in BOOLEAN}

PeerSendsGroup ==
  \E d \in PeerDescriptors :
    /\ conn.peerFrames < MaxPeerFrames
    /\ ~conn.socket.isClosed
    /\ conn' = [conn EXCEPT
                  !.peerFrames = @ + 1,
                  !.socket.queue =
                     @ \o <<[kind |-> "control", opCode |-> 1, data |-> <<d>>],
                            [kind |-> "data", out |-> 0, messageNumber |-> d.messageNumber,
                             offset |-> d.offset, frameLength |-> 1]>>]
    /\ UNCHANGED <<sqLast, applied>>

PeerSendsCancel ==
  \E messageNumbers \in {{0}, {1}, {0, 1}} :
    /\ conn.peerFrames < MaxPeerFrames
    /\ ~conn.socket.isClosed
    /\ conn' = [conn EXCEPT
                  !.peerFrames = @ + 1,
                  !.socket.queue =
                     Append(@, [kind |-> "control", opCode |-> 18, data |-> messageNumbers])]
    /\ UNCHANGED <<sqLast, applied>>

NextSlots == PeerSendsGroup \/ PeerSendsCancel \/ ForceClose \/ ReceiveLoop

SpecSlots == Init /\ [][NextSlots]_vars

\* --------------------------------------------- bytes sent under one budget
\* `applied` holds the budget computed at the last reset and the payload
\* bytes put into data frames since.  The constructor starts the send loop,
\* which computes its first budget before its first await.

InitThrottle ==
  /\ conn = Constructor([maxConcurrentMessages |-> MaxConcurrentMessages])
  /\ sqLast = NoCall
  /\ applied = [fn |-> "throttle", budget |-> BytesPerIteration, sent |-> 0, resets |-> 1]

\* The payload bytes of all messages handed to the socket so far
TotalSent(c) == LET s == [o \in 1..Len(c.outs) |-> c.outs[o].bytesSent]
                    sum[n \in 0..Len(s)] == IF n = 0 THEN 0 ELSE sum[n - 1] + s[n]
                IN sum[Len(s)]

\* The send loop runs from one await to the next.  It computes a new budget
\* when it starts an iteration with resetBytesRemainingEvent set.
SendLoopCounting ==
  /\ conn.sendLoop \in {"resumed", "sendCapabilities", "cancelOutgoingMessage",
                        "cancelOutgoingMessages"}
  /\ conn' = sendLoop(conn)
  /\ LET reset == conn.sendLoop = "resumed" /\ ~conn.isClosing
                    /\ conn.resetBytesRemainingEvent
         bytes == TotalSent(conn') - TotalSent(conn)
     IN applied' = IF reset
                   THEN [applied EXCEPT !.budget = BytesPerIteration, !.sent = bytes,
                                        !.resets = Min(@ + 1, 3)]
                   ELSE [applied EXCEPT !.sent = @ + bytes]
  /\ UNCHANGED sqLast

NextThrottle ==
  \/ Send \/ SendResumed \/ Cancel \/ SendLoopCounting \/ ReceiveLoop
  \/ ResetBytesRemainingTimer

SpecThrottle == InitThrottle /\ [][NextThrottle]_vars

\* ------------------------------------- the budget of a received estimate
\* The estimate of a received control frame becomes
\* _outboundThroughputEstimate, from which the send loop computes its next
\* budget; `applied` holds the estimate, the budget of the last reset and the
\* estimate it was computed of, what is left of it and the bytes and frames
\* cut from it.

\* Bytes 4..7 of the control frames received: 0, 1398, 131072, -1, -256, -65536
EstimateBytes == {<<0, 0, 0, 0>>, <<0, 0, 5, 118>>, <<0, 2, 0, 0>>,
                  <<255, 255, 255, 255>>, <<255, 255, 255, 0>>, <<255, 255, 0, 0>>}

InitEstimate ==
  /\ conn = Constructed([maxConcurrentMessages |-> MaxConcurrentMessages])
  /\ sqLast = NoCall
  /\ \E percent \in Percents, mtu \in Mtus :
       applied = [fn |-> "estimate", maxPercentThroughput |-> percent,
                  singlePacketMtu |-> mtu,
                  outboundThroughputEstimate |-> OutboundThroughputEstimate,
                  budgetOf |-> 0, budget |-> 0, bytesRemaining |-> 0, sent |-> 0,
                  frames |-> 0]

\* The receive loop reads a Pong frame and keeps its estimate
Est_ReceiveControlFrame ==
  \E bytes \in EstimateBytes :
    /\ applied' = [applied EXCEPT !.outboundThroughputEstimate =
                     ControlFrameRead(<<17, 0, 0, 100>> \o bytes).throughputEstimate]
    /\ UNCHANGED <<conn, sqLast>>

\* The send loop starts an iteration with resetBytesRemainingEvent set
Est_Reset ==
  LET budget == bytesPerIteration(applied.outboundThroughputEstimate,
                                  applied.maxPercentThroughput, TargetResponsiveness,
                                  applied.singlePacketMtu)
  IN /\ applied' = [applied EXCEPT !.budgetOf = applied.outboundThroughputEstimate,
                                   !.budget = budget, !.bytesRemaining = budget,
                                   !.sent = 0, !.frames = 0]
     /\ UNCHANGED <<conn, sqLast>>

\* One turn of the loop that cuts data frames, the queue having bytesReady
\* bytes of its next message ready
Est_GetNext ==
  \E bytesReady \in {1, MaxLen, 131072} :
    LET frameLength == Min(bytesReady, applied.bytesRemaining) IN
    /\ applied.bytesRemaining > 0
    /\ applied.frames < MaxDataFrames
    /\ applied' = [applied EXCEPT !.bytesRemaining = @ - frameLength,
                                  !.sent = @ + frameLength, !.frames = @ + 1]
    /\ UNCHANGED <<conn, sqLast>>

SpecEstimate == InitEstimate /\ [][Est_ReceiveControlFrame \/ Est_Reset \/ Est_GetNext]_vars

\* ------------------------------------------------- a connection that relays
\* The application sends one long message and forwards the messages it is
\* told about, at a priority of its choice, while their payload still arrives.

\* send(message, priority) of an incoming message that was announced
ForwardAt ==
  \E m \in 1..Len(conn.msgs), priority \in 0..(PriorityLevels - 1) :
    /\ "NewMessage" \in conn.msgs[m].delivered
    /\ CanCall(conn)
    /\ conn' = send(conn, FreeCall(conn), m, conn.msgs[m].length, priority)
    /\ UNCHANGED <<sqLast, applied>>

NextRelay ==
  \/ SendBulk \/ ForwardAt
  \/ BeginDispatch \/ DispatchLoop \/ ReceiveLoop \/ SendLoop
  \/ ResetBytesRemainingTimer

\* The event loop does not stop while something is ready to run, and the
\* timer of the budget expires
SpecRelay == InitPair /\ [][NextRelay]_vars /\ WF_vars(Run)

\* ------------------------------------------- SendQueue next to a second queue
\* Two SendQueue objects receive the same calls, except that one message, the
\* `doomed` one, is enqueued in the first queue only and later cancelled
\* there.  `applied` holds the second queue, its own copy of the
\* OutgoingMessage objects (their bytesSent), and what the last call did to
\* both queues.

NoTwin == [fn |-> "twin", op |-> "none", sq |-> SQNew, outs |-> <<>>,
           doomed |-> 0, cancelled |-> FALSE, before |-> SQNew.queues,
           got |-> [message |-> 0, bytesToSend |-> 0],
           twinGot |-> [message |-> 0, bytesToSend |-> 0]]

InitTwin ==
  /\ conn = Constructed([maxConcurrentMessages |-> MaxConcurrentMessages])
  /\ sqLast = NoCall
  /\ applied = NoTwin

\* enqueue(message) on both queues, or on the first queue only
Twin_Enqueue ==
  \E priority \in 0..(PriorityLevels - 1), length \in 1..MaxLen,
     forwarded \in BOOLEAN, doom \in BOOLEAN :
    LET o == Len(conn.outs) + 1
        src == IF forwarded THEN Len(conn.msgs) + 1 ELSE 0
    IN /\ Len(conn.outs) < MaxOut
       /\ doom => applied.doomed = 0
       /\ conn' = [conn EXCEPT
                     !.msgs = IF forwarded THEN Append(@, NewMsg(length)) ELSE @,
                     !.outs = Append(@, NewOut(0, src, length, priority)),
                     !.sendQueue = SQEnqueue(@, o, priority)]
       /\ applied' = [applied EXCEPT
                        !.op = "enqueue",
                        !.outs = Append(@, NewOut(0, src, length, priority)),
                        !.sq = IF doom THEN @ ELSE SQEnqueue(@, o, priority),
                        !.doomed = IF doom THEN o ELSE @]
       /\ UNCHANGED sqLast

\* A byte of the payload of a forwarded message arrives
Twin_Payload ==
  \E m \in 1..Len(conn.msgs) :
    /\ conn.msgs[m].bytesReceived < conn.msgs[m].length
    /\ conn' = [conn EXCEPT !.msgs[m].bytesReceived = @ + 1]
    /\ applied' = [applied EXCEPT !.op = "payload"]
    /\ UNCHANGED sqLast

\* getNext(maxBytes) on both queues.  Until the doomed message is cancelled
\* only the calls that return the same from both queues are taken, so that
\* the two queues have handed out the same bytes when cancel is called.
Twin_GetNext ==
  \E maxBytes \in 1..MaxLen :
    LET next == SQGetNext(conn.sendQueue, conn.outs, conn.msgs, maxBytes)
        twin == SQGetNext(applied.sq, applied.outs, conn.msgs, maxBytes)
    IN /\ conn.outs # <<>>
       /\ (applied.doomed # 0 /\ ~applied.cancelled) =>
            /\ next.message = twin.message
            /\ next.bytesToSend = twin.bytesToSend
       /\ conn' = [conn EXCEPT
                     !.sendQueue = next.sq,
                     !.outs = IF next.message = 0 THEN @
                              ELSE [@ EXCEPT ![next.message].bytesSent = @ + next.bytesToSend]]
       /\ applied' = [applied EXCEPT
                        !.op = "getNext",
                        !.sq = twin.sq,
                        !.outs = IF twin.message = 0 THEN @
                                 ELSE [@ EXCEPT ![twin.message].bytesSent = @ + twin.bytesToSend],
                        !.got = [message |-> next.message, bytesToSend |-> next.bytesToSend],
                        !.twinGot = [message |-> twin.message, bytesToSend |-> twin.bytesToSend]]
       /\ UNCHANGED sqLast

\* cancel(doomed) on the first queue
Twin_Cancel ==
  LET r == SQCancel(conn.sendQueue, conn.outs, applied.doomed) IN
  /\ applied.doomed # 0
  /\ ~applied.cancelled
  /\ r.ok
  /\ conn' = [conn EXCEPT !.sendQueue = r.sq,
                          !.outs[applied.doomed].cancelCalled = TRUE]
  /\ applied' = [applied EXCEPT !.op = "cancel", !.cancelled = TRUE,
                                !.before = conn.sendQueue.queues]
  /\ UNCHANGED sqLast

NextTwin == Twin_Enqueue \/ Twin_Payload \/ Twin_GetNext \/ Twin_Cancel

SpecTwin == InitTwin /\ [][NextTwin]_vars

\* ---------------------------------------------- send() calls and their fate
\* `applied` records how the last call of send, or the last continuation of a
\* send that waited for a message number, ended, and every ending seen so
\* far; `tick` changes with every such step.

NoSend == [fn |-> "send", outcome |-> "none", seen |-> {}, tick |-> FALSE]

InitSend ==
  /\ conn = Constructor([maxConcurrentMessages |-> MaxConcurrentMessages])
  /\ sqLast = NoCall
  /\ applied = NoSend

\* The priorities the application passes: those of Sendable and one too high
SentWith == Sendable \cup {[length |-> 1, priority |-> PriorityLevels]}

Ended(outcome) ==
  [applied EXCEPT !.outcome = outcome, !.seen = @ \cup {outcome}, !.tick = ~@]

\* The application calls send(message, priority)
SendAny ==
  \E input \in SentWith :
    /\ CanCall(conn)
    /\ conn' = send(conn, FreeCall(conn), 0, input.length, input.priority)
    /\ applied' = Ended(IF input.priority >= PriorityLevels THEN "thrown"
                        ELSE IF conn.isClosing THEN "closingAtEntry"
                        ELSE "taken")
    /\ UNCHANGED sqLast

\* A send that waited for a message number goes on after its await
SendAnyResumed ==
  \E i \in 1..MaxCalls :
    /\ conn.calls[i].pc = "resumed"
    /\ conn' = sendResumed(conn, i)
    /\ applied' = Ended(IF conn.isClosing THEN "closingWhileWaiting" ELSE "taken")
    /\ UNCHANGED sqLast

NextSend ==
  \/ SendAny \/ SendAnyResumed \/ ForceClose
  \/ ReceiveLoop \/ SendLoop \/ ResetBytesRemainingTimer

SpecSend == InitSend /\ [][NextSend]_vars

\* ------------------------------------------------------------ MovingAverage
\* A MovingAverage object is the record of its fields; _values is a sequence
\* with the oldest sample first.

MaxSamples == 5

\* A record that never forgets a sample.
MARecordKeeping(ma, value) ==
  LET values == Append(ma.values, value)
      sum == ma.sum + value
  IN [ma EXCEPT !.values = values, !.sum = sum, !.average = sum \div Len(values)]

\* MovingAverage.record; Math.floor of the quotient is \div, the divisor
\* being positive
MARecord(ma, value) ==
  LET values == Append(ma.values, value)
      sum == ma.sum + value
      dropped == Len(values) > ma.maxValues
      kept == IF dropped THEN Tail(values) ELSE values
      left == IF dropped THEN sum - Head(values) ELSE sum
  IN [ma EXCEPT !.values = kept, !.sum = left, !.average = left \div Len(kept)]

\* new MovingAverage(initialValue, maxValues)
MANew(initialValue, maxValues) ==
  MARecord([maxValues |-> maxValues, values |-> <<>>, sum |-> 0, average |-> 0],
           initialValue)

\* MovingAverage.getValue
MAGetValue(ma) == ma.average

\* The samples recorded: round-trip times and byte rates, and a negative one
Samples == {-3, 0, 1, 2, 100}

\* The window sizes (bandwidthEstimatorSamples)
Windows == 1..3

InitAverage ==
  /\ conn = Constructed([maxConcurrentMessages |-> MaxConcurrentMessages])
  /\ sqLast = NoCall
  /\ \E initialValue \in Samples, maxValues \in Windows :
       applied = [fn |-> "average", ma |-> MANew(initialValue, maxValues),
                  recorded |-> <<initialValue>>]

\* record(value); `recorded` keeps every sample ever recorded
MA_Record ==
  \E value \in Samples :
    /\ Len(applied.recorded) < MaxSamples
    /\ applied' = [applied EXCEPT !.ma = MARecord(@, value),
                                  !.recorded = Append(@, value)]
    /\ UNCHANGED <<conn, sqLast>>

SpecAverage == InitAverage /\ [][MA_Record]_vars

\* ------------------------------------------ the descriptors of a send queue
\* The "Get the outgoing messages to send" loop of the send loop is run on a
\* queue that the application fills, with the budget of the iteration;
\* `applied` keeps every descriptor the loop has built, oldest first.

InitFrames ==
  /\ conn = Constructed([maxConcurrentMessages |-> MaxConcurrentMessages])
  /\ sqLast = NoCall
  /\ applied = [fn |-> "frames", emitted |-> <<>>]

\* send or forward up to its enqueue
Frames_Enqueue ==
  \E priority \in 0..(PriorityLevels - 1), length \in 1..MaxLen, forwarded \in BOOLEAN :
    LET o == Len(conn.outs) + 1
        src == IF forwarded THEN Len(conn.msgs) + 1 ELSE 0
    IN /\ Len(conn.outs) < MaxOut
       /\ conn' = [conn EXCEPT
                     !.msgs = IF forwarded THEN Append(@, NewMsg(length)) ELSE @,
                     !.outs = Append(@, NewOut(o - 1, src, length, priority)),
                     !.sendQueue = SQEnqueue(@, o, priority)]
       /\ UNCHANGED <<sqLast, applied>>

\* A byte of the payload of a forwarded message arrives
Frames_Payload ==
  \E m \in 1..Len(conn.msgs) :
    /\ conn.msgs[m].bytesReceived < conn.msgs[m].length
    /\ conn' = [conn EXCEPT !.msgs[m].bytesReceived = @ + 1]
    /\ UNCHANGED <<sqLast, applied>>

\* One iteration of the send loop with `budget` bytes remaining
Frames_GetDataFrames ==
  \E budget \in 1..MaxLen :
    LET got == getDataFrames([conn EXCEPT !.bytesRemaining = budget], <<>>) IN
    /\ conn.outs # <<>>
    /\ conn' = [got.c EXCEPT !.bytesRemaining = 0]
    /\ applied' = [applied EXCEPT !.emitted = @ \o got.dataFrames]
    /\ UNCHANGED sqLast

\* cancel(message) of a message that is still queued
Frames_Cancel ==
  \E o \in 1..Len(conn.outs) :
    LET r == SQCancel(conn.sendQueue, conn.outs, o) IN
    /\ ~conn.outs[o].cancelCalled
    /\ r.ok
    /\ conn' = [conn EXCEPT !.sendQueue = r.sq, !.outs[o].cancelCalled = TRUE]
    /\ UNCHANGED <<sqLast, applied>>

NextFrames == Frames_Enqueue \/ Frames_Payload \/ Frames_GetDataFrames \/ Frames_Cancel

SpecFrames == InitFrames /\ [][NextFrames]_vars

\* ------------------------------------------------------------ AsyncMutex
\* Tasks of one event loop share an AsyncMutex.  `applied` holds the mutex
\* (isLocked), its AsyncAutoResetEvent (isSet, waiters: the Waiter of task t is
\* named t), the Waiters whose setTimeout(resolve) has not fired yet (timers),
\* where each task is, and the tasks between the return of their lock() and
\* their unlock() (holders).
NumTasks == 3

Tasks == 1..NumTasks

\* AsyncEventWaitHandle.waitAsync of the auto-reset event, awaited by task t
waitAsync(s, t) ==
  IF s.isSet
    THEN [s EXCEPT !.isSet = FALSE, !.pc[t] = "resolved"]
    ELSE [s EXCEPT !.waiters = Append(@, t), !.pc[t] = "waiting"]

\* AsyncEventWaitHandle.set of the auto-reset event: the first waiter is
\* completed (a Waiter in the list is never complete already), or the event
\* stays set
eventSet(s) ==
  IF s.waiters # <<>>
    THEN [s EXCEPT !.waiters = Tail(@), !.timers = @ \cup {Head(s.waiters)}]
    ELSE [s EXCEPT !.isSet = TRUE]

\* AsyncMutex.lock from the top of its loop up to its next await or its return
lockLoop(s, t) ==
  IF s.isLocked
    THEN waitAsync(s, t)
    ELSE [s EXCEPT !.isLocked = TRUE, !.pc[t] = "held", !.holders = @ \cup {t}]

lockResumedOnce(s, t) ==
  [s EXCEPT !.isLocked = TRUE, !.pc[t] = "held", !.holders = @ \cup {t}]

\* the continuation of `await this.unlockedEvent.waitAsync()`: the loop again
lockResumed(s, t) == lockLoop(s, t)

\* AsyncMutex.unlock by the task that holds the mutex
unlock(s, t) ==
  eventSet([s EXCEPT !.isLocked = FALSE, !.pc[t] = "out", !.holders = @ \ {t}])

InitMutex ==
  /\ conn = Constructed([maxConcurrentMessages |-> MaxConcurrentMessages])
  /\ sqLast = NoCall
  /\ applied = [fn |-> "mutex", isLocked |-> FALSE, isSet |-> FALSE,
                waiters |-> <<>>, timers |-> {},
                pc |-> [t \in Tasks |-> "out"], holders |-> {}]

Mx_Lock ==
  /\ applied.fn = "mutex"
  /\ \E t \in Tasks :
       /\ applied.pc[t] = "out"
       /\ applied' = lockLoop(applied, t)
  /\ UNCHANGED <<conn, sqLast>>

\* the setTimeout of Waiter.trySetComplete fires and resolves the promise
Mx_Timer ==
  /\ applied.fn = "mutex"
  /\ \E t \in applied.timers :
       applied' = [applied EXCEPT !.timers = @ \ {t}, !.pc[t] = "resolved"]
  /\ UNCHANGED <<conn, sqLast>>

Mx_Resume ==
  /\ applied.fn = "mutex"
  /\ \E t \in Tasks :
       /\ applied.pc[t] = "resolved"
       /\ applied' = lockResumed(applied, t)
  /\ UNCHANGED <<conn, sqLast>>

\* the holder reaches an await of its own inside the critical section
Mx_Yield ==
  /\ applied.fn = "mutex"
  /\ \E t \in Tasks :
       /\ applied.pc[t] = "held"
       /\ applied' = [applied EXCEPT !.pc[t] = "yielded"]
  /\ UNCHANGED <<conn, sqLast>>

Mx_Unlock ==
  /\ applied.fn = "mutex"
  /\ \E t \in Tasks :
       /\ applied.pc[t] \in {"held", "yielded"}
       /\ applied' = unlock(applied, t)
  /\ UNCHANGED <<conn, sqLast>>

NextMutex == Mx_Lock \/ Mx_Timer \/ Mx_Resume \/ Mx_Yield \/ Mx_Unlock

SpecMutex == InitMutex /\ [][NextMutex]_vars

\* ------------------------------------------------- the capability flags
\* TransportCapabilities1 by its numbers.  A bitmask is the set of its bits,
\* each bit named by its value (bit b by 2^b); the values here are not
\* negative, so bits 0..30 are all there is to them.
Capabilities2 == 2147483647

Flags == {Capabilities, CancelMessage, Capabilities2}

\* the bits of a value, as `&` and `|` see them
MaskOf(value) == {Pow2(b) : b \in {c \in 0..30 : (value \div Pow2(c)) % 2 = 1}}

\* a | b | ... of a set of flags
MaskOfFlags(flags) == UNION {MaskOf(f) : f \in flags}

FlagsObjects ==
  [majorVersion : {2, 3}, minorVersion : {0, 5}, flags : SUBSET Flags]

InitFlags ==
  /\ conn = Constructed([maxConcurrentMessages |-> MaxConcurrentMessages])
  /\ sqLast = NoCall
  /\ applied \in [fn : {"flags"}, caps1 : FlagsObjects, caps2 : FlagsObjects,
                   result : {ZeroCapabilities}]

CapabilitiesOf(caps) ==
  [majorVersion |-> caps.majorVersion, minorVersion |-> caps.minorVersion,
   capabilities1 |-> MaskOfFlags(caps.flags)]

\* TransportCapabilities.negotiate on two objects whose capabilities1 is the
\* `|` of their flags
NegotiateFlags ==
  /\ applied.fn = "flags"
  /\ applied' = [applied EXCEPT !.fn = "negotiateFlags",
                                !.result = negotiate(CapabilitiesOf(applied.caps1),
                                                     CapabilitiesOf(applied.caps2))]
  /\ UNCHANGED <<conn, sqLast>>

SpecFlags == InitFlags /\ [][NegotiateFlags]_vars

\* ------------------------------------------------------------------ claims

\* Nothing is left for the event loop to run
Quiescent == ~ENABLED Run

Outs == 1..Len(conn.outs)

Msgs == 1..Len(conn.msgs)

\* The OutgoingMessage objects that hold a message number
Holding == {o \in Outs : conn.outs[o].holding}

\* C1: when forceClose is called while an incoming message is in progress
\* and its NewMessage event was delivered, the dispatch loop delivers a
\* Cancelled event for the message: once the dispatch loop has ended (and no
\* callback threw), every such message has had its Cancelled event.
C1_CloseDeliversCancelled ==
  (conn.dispatchLoop = "done" /\ conn.throws = 0) =>
    \A m \in Msgs : conn.msgs[m].closeCancelled => "Cancelled" \in conn.msgs[m].delivered

\* C2: getNext(maxBytes > 0) returns the head of the lowest-numbered priority
\* level whose head has payload ready, and no message only when there is no
\* such level.
C2_GetNextReturnsLowestReadyHead ==
  sqLast.op = "getNext" => sqLast.message = sqLast.expected

\* C3: cancelling an outgoing message that has bytes remaining never makes
\* the receiver fail on the 0x12 frame: cancelReceivedMessage never throws
\* 'Invalid message number' (which would close the connection).
C3_CancelNeverBreaksReceiver ==
  InvalidMessageNumber.message \notin conn.logged

\* C4: an incoming message handed to send() before it was complete and
\* cancelled later has its outgoing copy removed from the send queue and the
\* message number of the copy returned, whatever the timing: when the Cancel
\* capability is negotiated, the connection is open and nothing is left to
\* run, no such copy is queued or holds a message number.
C4_ForwardedCopyCancelled ==
  (Quiescent /\ ~conn.isClosing /\ CancelMessage \in conn.negotiatedCapabilities.capabilities1) =>
    \A o \in Outs :
      (conn.outs[o].liveAtSend /\ conn.msgs[conn.outs[o].src].isCancelled) =>
        (o \notin Holding /\ o \notin SQQueued(conn.sendQueue))

\* C5: an exception thrown by an application callback during dispatch is
\* caught: it never reaches _loopExceptionWrapper, which would log it, with
\* the dispatch loop ended and the connection force-closed.
C5_CallbackExceptionCaught ==
  CallbackError.message \notin conn.logged

\* C6: at every moment at most maxConcurrentMessages outgoing messages hold a
\* message number, and no two of them hold the same one.
C6_HoldersWithinPool ==
  /\ Cardinality(Holding) <= conn.config.maxConcurrentMessages
  /\ \A a, b \in Holding : conn.outs[a].messageNumber = conn.outs[b].messageNumber => a = b

\* The pool is exhausted: every message number is held and a send() waits
C6_Witness ==
  /\ Cardinality(Holding) = conn.config.maxConcurrentMessages
  /\ \E i \in 1..MaxCalls : conn.calls[i].pc = "whenAny"

\* C7: a send() call blocked on the empty pool of message numbers does not
\* stay blocked forever: it returns after a message number came back with an
\* isLast frame, and it returns without sending once the connection is closing.
C7_BlockedSendReturns ==
  /\ \A i \in 1..MaxCalls : (conn.calls[i].pc = "whenAny") ~> (conn.calls[i].pc = "idle")
  /\ [][\A i \in 1..MaxCalls :
          (conn.calls[i].pc = "resumed" /\ conn.isClosing /\ conn.calls'[i].pc = "idle")
            => conn.outs' = conn.outs]_vars

\* A blocked send() has been released by a message number that came back
C7_Witness ==
  \E i \in 1..MaxCalls :
    /\ conn.calls[i].pc = "resumed"
    /\ conn.sendMessageNumbers # <<>>
    /\ ~conn.isClosing

\* The frames of `queue` are whole groups: after `pending` data frames that
\* match the descriptors `expected`, only control frames, each of opcode N in
\* 1..15 followed by N data frames that match its descriptors in their order.
RECURSIVE WellFramed(_, _)
WellFramed(queue, expected) ==
  IF queue = <<>> THEN TRUE
  ELSE LET frame == Head(queue) IN
       IF expected # <<>>
       THEN /\ frame.kind = "data"
            /\ frame.messageNumber = Head(expected).messageNumber
            /\ frame.offset = Head(expected).offset
            /\ WellFramed(Tail(queue), Tail(expected))
       ELSE /\ frame.kind = "control"
            /\ IF frame.opCode >= 1 /\ frame.opCode <= 15
               THEN /\ Len(frame.data) = frame.opCode
                    /\ Len(queue) > frame.opCode
                    /\ WellFramed(Tail(queue), frame.data)
               ELSE WellFramed(Tail(queue), <<>>)

\* C8: on the socket every control frame of opcode N in 0x01..0x0F is
\* followed immediately by exactly N data frames, one per descriptor and in
\* descriptor order, with no other frame in between.  The frames the receive
\* loop still expects of the group it is reading come first.
C8_GroupsNotInterleaved ==
  WellFramed(conn.socket.queue, conn.expectedDataFrame \o conn.expectedDataFrames)

\* Two data frames travel behind one control frame, behind other frames
C8_Witness ==
  \E n \in 2..Len(conn.socket.queue) :
    /\ conn.socket.queue[n].kind = "control"
    /\ conn.socket.queue[n].opCode = 2

\* C9: enqueuing a message with payload ready at a priority numerically lower
\* than every message still queued makes the very next getNext return it.
C9_EnqueuedTopIsNext ==
  (sqLast.op = "getNext" /\ sqLast.owed # 0) => sqLast.message = sqLast.owed

\* getNext returned a message whose enqueue had to lower the cursor
C9_Witness ==
  /\ sqLast.op = "getNext"
  /\ sqLast.owed # 0
  /\ sqLast.lowered
  /\ sqLast.message = sqLast.owed

\* C10: of two messages enqueued at the same priority, no byte of the later
\* one is sent before the last byte of the earlier one, unless the earlier
\* one is cancelled; and the frames of one iteration of the send loop are
\* whole: each starts where the bytes already sent of its message end.
C10_SamePriorityFifo ==
  /\ \A a, b \in Outs :
       (a < b /\ conn.outs[a].priority = conn.outs[b].priority /\ conn.outs[b].bytesSent > 0)
         => (BytesRemaining(conn.outs, a) = 0 \/ conn.outs[a].cancelCalled)
  /\ \A n \in 1..Len(sqLast.frames) :
       LET frame == sqLast.frames[n]
           before == {k \in 1..(n - 1) : sqLast.frames[k].out = frame.out}
       IN /\ frame.frameLength > 0
          /\ frame.offset + frame.frameLength <= frame.length
          /\ \A k \in before :
               sqLast.frames[k].offset + sqLast.frames[k].frameLength <= frame.offset

\* The later of two messages of one priority is sent after the earlier one,
\* which took more than one frame, and both in one iteration of the loop
C10_Witness ==
  /\ \E a, b \in Outs :
       /\ a < b
       /\ conn.outs[a].priority = conn.outs[b].priority
       /\ conn.outs[a].length = MaxLen
       /\ ~conn.outs[a].cancelCalled
       /\ conn.outs[b].bytesSent > 0
  /\ Len(sqLast.frames) >= 2

\* C11: when the dispatch loop exits after the connection is closed (and not
\* because a callback threw), the dispatch queue is empty: every message that
\* was queued for its Cancelled or Complete event has been dispatched.
C11_DispatchQueueDrained ==
  (conn.dispatchLoop = "done" /\ conn.throws = 0) => conn.dispatchQueue = <<>>

\* C12: for every incoming message, NewMessage is signalled at most once and
\* Complete at most once, at the registry of the message and at the
\* connection-level registry, over any sequence of dispatch cycles.
C12_NewAndCompleteOnce ==
  \A m \in Msgs : \A registry \in {"message", "connection"} :
    /\ conn.msgs[m].fired[registry].NewMessage <= 1
    /\ conn.msgs[m].fired[registry].Complete <= 1

\* A message was dispatched more than once: Complete came in a later cycle
\* than NewMessage, and both were signalled at both registries
C12_Witness ==
  \E m \in Msgs :
    /\ conn.msgs[m].completeNotified = 1
    /\ \A registry \in {"message", "connection"} :
         /\ conn.msgs[m].fired[registry].NewMessage = 1
         /\ conn.msgs[m].fired[registry].Complete = 1

\* C13: no message has both a Complete event and a Cancelled event delivered
\* to its registries, in either order.
C13_CompleteExcludesCancelled ==
  \A m \in Msgs :
    ~({"Complete", "Cancelled"} \subseteq (conn.msgs[m].delivered \cup conn.msgs[m].messageDelivered))

\* One message was delivered Cancelled at both registries and another Complete
C13_Witness ==
  \E a, b \in Msgs :
    /\ "Cancelled" \in conn.msgs[a].delivered \cap conn.msgs[a].messageDelivered
    /\ "Complete" \in conn.msgs[b].delivered \cap conn.msgs[b].messageDelivered

\* C14: a message cancelled before its NewMessage event was delivered never
\* has any event delivered, at neither registry.
C14_CancelledUnannouncedIsSilent ==
  \A m \in Msgs :
    conn.msgs[m].cancelledUnannounced =>
      (conn.msgs[m].delivered = {} /\ conn.msgs[m].messageDelivered = {})

\* A message cancelled before NewMessage has gone through the dispatch loop
C14_Witness ==
  \E m \in Msgs :
    /\ conn.msgs[m].cancelledUnannounced
    /\ conn.msgs[m].sentNewMessageCallback
    /\ ~InSeq(conn.dispatchQueue, m)

\* C15: a message-level callback registered for Complete from inside the
\* connection-level NewMessage handler is given Complete exactly once for
\* every message that completes: once the connection-level registry has been
\* given Complete (one notification), the callback has been given it once
\* (the second notification).
C15_CompleteNotifiedTwice ==
  \A m \in Msgs :
    (conn.throws = 0 /\ "Complete" \in conn.msgs[m].delivered) =>
      (conn.msgs[m].registered /\ conn.msgs[m].completeNotified = 1)

\* C16: cancel() for an outgoing message that is not in the send queue while
\* it has bytes remaining (a message cancelled before) is reported to the
\* caller at once: the call throws, so it never returns having queued the
\* request in _outgoingMessagesToCancel.
C16_MisusedCancelRejected ==
  [][\A o \in Outs :
       (o \notin SQQueued(conn.sendQueue) /\ BytesRemaining(conn.outs, o) > 0)
         => conn.outgoingMessagesToCancel' # Append(conn.outgoingMessagesToCancel, o)]_vars

PingReason == "Remote side did not respond to a ping"

CancelFrames(queue) ==
  {n \in 1..Len(queue) : queue[n].kind = "control" /\ queue[n].opCode = 18}

\* The send loop takes the first request of _outgoingMessagesToCancel in this step
CancelProcessed ==
  /\ conn.outgoingMessagesToCancel # <<>>
  /\ conn.outgoingMessagesToCancel' = Tail(conn.outgoingMessagesToCancel)

CancelNegotiated == CancelMessage \in conn.negotiatedCapabilities.capabilities1

OutOfNumbersReason == "Out of message numbers and unable to cancel"

\* C19: when the send loop processes a cancel request for a message with
\* bytes remaining while the negotiated capabilities lack the CancelMessage
\* bit, then with an empty pool of message numbers the connection is closed,
\* with the reason "Out of message numbers and unable to cancel" unless it
\* was closed before; with a number left in the pool the step closes nothing.
C19_OutOfNumbersCloses ==
  [][(CancelProcessed /\ ~CancelNegotiated
        /\ BytesRemaining(conn.outs, Head(conn.outgoingMessagesToCancel)) > 0)
      => IF conn.sendMessageNumbers = <<>>
         THEN /\ conn.isClosing'
              /\ conn.closeReason' = IF conn.closeReason = "" THEN OutOfNumbersReason
                                     ELSE conn.closeReason
         ELSE /\ conn.closeReason' = conn.closeReason
              /\ conn.isClosing' = conn.isClosing]_vars

\* Both messages hold the two numbers of the pool, a cancellation was
\* processed without the capability and closed the connection
C19_Witness ==
  /\ conn.closeReason = OutOfNumbersReason
  /\ conn.isClosing
  /\ ~CancelNegotiated
  /\ conn.sendMessageNumbers = <<>>
  /\ \E o \in Outs : conn.outs[o].cancelCalled /\ o \in SQQueued(conn.sendQueue)

\* The message numbers of the messages that leave the send queue in this step
RemovedNumbers ==
  {conn.outs[o].messageNumber : o \in SQQueued(conn.sendQueue) \ SQQueued(conn.sendQueue')}

\* The bits gathered by the pass of cancelOutgoingMessages that is under way
PassSoFar == IF conn.sendLoop = "cancelOutgoingMessage" THEN conn.msgNumbers ELSE {}

\* The send loop leaves the while loop of cancelOutgoingMessages in this step
PassEnds ==
  /\ conn.sendLoop = "cancelOutgoingMessage"
  /\ conn.outgoingMessagesToCancel = <<>>
  /\ conn.sendLoop' # conn.sendLoop

\* The number of 0x12 frames this step puts on the socket
CancelFramesAdded ==
  Cardinality(CancelFrames(conn.socket.queue')) - Cardinality(CancelFrames(conn.socket.queue))

\* C20: the cancel requests taken in one pass of cancelOutgoingMessages
\* produce at most one 0x12 frame, put on the socket when the pass ends; its
\* bitmask holds exactly the message numbers of the messages the pass removed
\* from the send queue, and no 0x12 frame is put when the pass removed none.
\* The bits gathered by the pass are, request by request, the numbers of the
\* messages removed; nothing else changes them or removes a message
\* while the pass is under way; a 0x12 frame is added only by the step that
\* ends a pass, with the bits gathered as its bitmask, and only if there are any.
C20_OneCancelFramePerPass ==
  /\ [][(CancelProcessed /\ conn.sendLoop' = "cancelOutgoingMessage")
          => conn.msgNumbers' = PassSoFar \cup RemovedNumbers]_vars
  /\ [][(conn.sendLoop = "cancelOutgoingMessage" /\ ~CancelProcessed /\ ~PassEnds)
          => /\ conn.msgNumbers' = conn.msgNumbers
             /\ RemovedNumbers = {}]_vars
  /\ [][/\ CancelFramesAdded <= 1
        /\ CancelFramesAdded = 1
             => /\ PassEnds
                /\ conn.msgNumbers # {}
                /\ conn.socket.queue' =
                     Append(conn.socket.queue,
                            [kind |-> "control", opCode |-> 18, data |-> conn.msgNumbers])
        /\ (PassEnds /\ conn.msgNumbers # {} /\ ~conn.socket.isClosed)
             => CancelFramesAdded = 1
        /\ (CancelProcessed /\ conn.sendLoop' = "done") => CancelFramesAdded = 0]_vars

\* One 0x12 frame tells of both messages of the pool, removed in one pass
C20_Witness ==
  /\ Cardinality(CancelFrames(conn.socket.queue)) = 1
  /\ \E n \in CancelFrames(conn.socket.queue) : conn.socket.queue[n].data = {0, 1}
  /\ SQQueued(conn.sendQueue) = {}
  /\ Len(conn.sendMessageNumbers) = PairConcurrentMessages

\* C21: a cancel request for an outgoing message with no bytes remaining is
\* a silent no-op: the step that takes it adds no bit to the bitmask of the
\* pass and no 0x12 frame to the socket, leaves the pool of message numbers
\* and the send queue as they are, and closes nothing.
C21_TooLateCancelIsNoOp ==
  [][(CancelProcessed /\ BytesRemaining(conn.outs, Head(conn.outgoingMessagesToCancel)) = 0)
      => /\ conn.sendLoop' = "cancelOutgoingMessage"
         /\ conn.msgNumbers' = PassSoFar
         /\ CancelFramesAdded = 0
         /\ conn.sendMessageNumbers' = conn.sendMessageNumbers
         /\ conn.sendQueue' = conn.sendQueue
         /\ conn.closeReason' = conn.closeReason
         /\ conn.isClosing' = conn.isClosing
         /\ conn.logged' = conn.logged]_vars

\* A message sent to its last byte was cancelled with the capability
\* negotiated, the request has been taken, and the connection is open with
\* every message number in the pool once
C21_Witness ==
  /\ CancelNegotiated
  /\ conn.closeReason = ""
  /\ conn.sendLoop \notin {"cancelOutgoingMessage", "done"}
  /\ CancelFrames(conn.socket.queue) = {}
  /\ Len(conn.sendMessageNumbers) = PairConcurrentMessages
  /\ \E o \in 1..Len(conn.outs) :
       /\ conn.outs[o].cancelCalled
       /\ ~InSeq(conn.outgoingMessagesToCancel, o)
       /\ BytesRemaining(conn.outs, o) = 0

\* C22: of the calls of forceClose only the first has an effect: once the
\* connection is closing no step closes the socket again, and the reason
\* waitClose returns stays the one the first call gave.
C22_OnlyFirstForceCloseActs ==
  [][conn.isClosing => /\ waitClose(conn') = waitClose(conn)
                       /\ conn.socket.closeCalls' = conn.socket.closeCalls]_vars

\* The smallest multiple of singlePacketMtu that is not below
\* estimate * maxPercentThroughput * targetResponsiveness / 100000
CeilingBudget(estimate, maxPercentThroughput, targetResponsiveness, singlePacketMtu) ==
  LET num == estimate * maxPercentThroughput * targetResponsiveness
      den == 100000 * singlePacketMtu
  IN ((num + den - 1) \div den) * singlePacketMtu

\* C23: the byte budget after a reset is the smallest multiple of
\* singlePacketMtu greater than or equal to outboundThroughputEstimate *
\* maxPercentThroughput * targetResponsiveness / 100000, exact multiples of
\* the MTU and 0 included.
C23_BudgetIsCeiling ==
  applied.fn = "bytesPerIteration"
    => applied.bytesRemaining = CeilingBudget(applied.outboundThroughputEstimate,
                                              applied.maxPercentThroughput,
                                              TargetResponsiveness,
                                              applied.singlePacketMtu)

CapabilitiesFrame == [kind |-> "control", opCode |-> 0]

\* C24: a connection constructed with sendCapabilities = true hands the 0x00
\* capabilities frame to the socket before any other frame: the first frame
\* submitted is never a pong, a ping, a cancel or a data frame.
C24_CapabilitiesFirst == conn.socket.first = CapabilitiesFrame

\* Capabilities went first and a ping, a pong and data followed
C24_Witness ==
  /\ conn.socket.first = CapabilitiesFrame
  /\ conn.capabilitiesSent
  /\ \E n \in 1..Len(conn.socket.queue) : conn.socket.queue[n].kind = "data"
  /\ conn.pingResponseTimer

\* The send loop calls sendCapabilities() in this step
CapabilitiesSubmitted ==
  conn.sendLoop' = "sendCapabilities" /\ conn.sendLoop # "sendCapabilities"

\* C25: a connection constructed with sendCapabilities = false sends no 0x00
\* frame before it has received a 0x00 frame whose negotiated result holds
\* the Capabilities bit.
C25_LegacySendsCapabilitiesOnlyWhenAsked ==
  /\ [][CapabilitiesSubmitted => conn.capableReceived]_vars
  /\ []((conn.capabilitiesSent \/ conn.socket.first = CapabilitiesFrame)
         => conn.capableReceived)
  /\ [](\A n \in 1..Len(conn.socket.queue) :
          (conn.socket.queue[n].kind = "control" /\ conn.socket.queue[n].opCode = 0
             /\ conn.socket.queue[n].data = LocalCapabilities)
          => (conn.capableReceived \/ conn.peerFrames > 0))

\* After pings and frames of a peer that cannot read capabilities, a frame of
\* one that can was received and the capabilities were sent
C25_Witness ==
  /\ conn.capabilitiesSent
  /\ conn.capableReceived
  /\ conn.peerFrames = MaxPeerFrames
  /\ conn.socket.first # CapabilitiesFrame
  /\ conn.socket.first # NoFrame

\* (major, minor) of `a` is lexicographically at most that of `b`
VersionAtMost(a, b) ==
  \/ a.majorVersion < b.majorVersion
  \/ a.majorVersion = b.majorVersion /\ a.minorVersion <= b.minorVersion

SameVersion(a, b) == a.majorVersion = b.majorVersion /\ a.minorVersion = b.minorVersion

C26_CodecRoundTrip == applied.fn = "read" => applied.read = applied.frame

\* C28: the dispatch queue never holds a Message twice, an enqueue of a
\* Message that is present changes nothing, and dequeue returns the Messages
\* in the order of their first effective enqueue (undefined when there is none).
C28_DispatchQueueIsFifoSet ==
  /\ \A i, j \in 1..Len(applied.dq.queue) :
        applied.dq.queue[i] = applied.dq.queue[j] => i = j
  /\ applied.dq.set = {applied.dq.queue[i] : i \in 1..Len(applied.dq.queue)}
  /\ (applied.fn = "enqueue" /\ InSeq(applied.before.queue, applied.message))
       => applied.dq = applied.before
  /\ applied.fn = "dequeue" => applied.message = applied.expected

\* After MaxOps calls a dequeue has returned a Message, which is no longer
\* in the set, and has left another one in the queue
C28_Witness ==
  /\ applied.fn = "dequeue"
  /\ applied.message # 0
  /\ applied.ops = MaxOps
  /\ applied.dq.queue # <<>>
  /\ applied.message \notin applied.dq.set

\* How far from the head of the sequence s the element x stands
PositionIn(s, x) == CHOOSE i \in 1..Len(s) : s[i] = x

\* `after` holds the elements of `before` other than x, each once, and any
\* two of them in the order they had in `before`
RemovedExactly(before, after, x) ==
  /\ {after[i] : i \in 1..Len(after)} = {before[i] : i \in 1..Len(before)} \ {x}
  /\ \A i, j \in 1..Len(after) :
       i < j => /\ after[i] # after[j]
                /\ PositionIn(before, after[i]) < PositionIn(before, after[j])

\* C29, first part: cancel(m) of a queued message m removes m and nothing
\* else, and leaves the order of every priority level as it was.
C29_CancelRemovesExactly ==
  (applied.fn = "twin" /\ applied.op = "cancel") =>
    \A p \in 0..(PriorityLevels - 1) :
      RemovedExactly(applied.before[p].items, conn.sendQueue.queues[p].items,
                     applied.doomed)

\* C29, second part: after cancel(m) every getNext returns the message, and
\* the number of bytes, that it returns from a queue in which m was never
\* enqueued.
C29_AsIfNeverEnqueued ==
  (applied.fn = "twin" /\ applied.op = "getNext" /\ applied.cancelled) =>
    applied.got = applied.twinGot

\* C29: SendQueue.cancel(m) for a queued message m removes exactly m, keeps
\* the other queued messages in their order within every priority level, and
\* the messages later returned by getNext are the same, in the same order, as
\* if m had never been enqueued.
C29_CancelLeavesNoTrace == C29_CancelRemovesExactly /\ C29_AsIfNeverEnqueued


Rejections == {"thrown", "closingAtEntry", "closingWhileWaiting"}

\* C30: a send() that is rejected, with an error because the priority is
\* priorityLevels or more, or silently because the connection is closing at
\* entry or after the wait for a message number, changes no transport state:
\* the pool of message numbers, the send queue and every other field of the
\* connection are as before (only the record of the call itself is dropped).
C30_RejectedSendChangesNothing ==
  [][(applied' # applied /\ applied'.outcome \in Rejections) =>
       /\ conn'.sendMessageNumbers = conn.sendMessageNumbers
       /\ conn'.sendQueue = conn.sendQueue
       /\ conn'.outs = conn.outs
       /\ conn' = [conn EXCEPT !.calls = conn'.calls]]_vars

\* Each of the three rejections has happened
C30_Witness ==
  /\ applied.fn = "send"
  /\ Rejections \subseteq applied.seen
  /\ applied.outcome \in Rejections


RECURSIVE SumOf(_)
SumOf(s) == IF s = <<>> THEN 0 ELSE Head(s) + SumOf(Tail(s))

\* The last n elements of the sequence s
LastOf(s, n) == SubSeq(s, Len(s) - n + 1, Len(s))

\* C31: after construction with an initial value and any sequence of record
\* calls, getValue() is the floor of the arithmetic mean of the last
\* min(count, maxValues) recorded samples, the initial value being the first.
C31_AverageOfWindow ==
  applied.fn = "average" =>
    LET n == Min(Len(applied.recorded), applied.ma.maxValues)
    IN MAGetValue(applied.ma) = SumOf(LastOf(applied.recorded, n)) \div n

\* More samples than the window holds were recorded, and the mean is not whole
C31_Witness ==
  /\ applied.fn = "average"
  /\ Len(applied.recorded) > applied.ma.maxValues + 1
  /\ applied.ma.maxValues > 1
  /\ applied.ma.sum % Len(applied.ma.values) # 0
  /\ applied.ma.sum < 0


\* The descriptors built so far for OutgoingMessage o, oldest first
EmittedFor(o) == SelectSeq(applied.emitted, LAMBDA d : d.out = o)

\* C32: the descriptors of an outgoing message have contiguous, strictly
\* increasing offsets that start at 0 (each offset is the sum of the frame
\* lengths before it); isFirst is set on the descriptor of offset 0 and on no
\* other, isLast on the descriptor whose frame reaches the length of the
\* message and on no other.
C32_DescriptorsTileTheMessage ==
  applied.fn = "frames" =>
    \A o \in 1..Len(conn.outs) :
      LET ds == EmittedFor(o) IN
      \A k \in 1..Len(ds) :
        /\ ds[k].frameLength > 0
        /\ ds[k].offset = SumOf([j \in 1..(k - 1) |-> ds[j].frameLength])
        /\ ds[k].isFirst <=> ds[k].offset = 0
        /\ ds[k].isFirst <=> k = 1
        /\ ds[k].isLast <=> ds[k].offset + ds[k].frameLength = conn.outs[o].length
        /\ ds[k].offset + ds[k].frameLength <= conn.outs[o].length

\* A message went out in three frames, with another message in between
C32_Witness ==
  /\ applied.fn = "frames"
  /\ \E o \in 1..Len(conn.outs) :
       /\ Len(EmittedFor(o)) = 3
       /\ EmittedFor(o)[3].isLast
       /\ \E i, j, k \in 1..Len(applied.emitted) :
            /\ i < j /\ j < k
            /\ applied.emitted[i].out = o
            /\ applied.emitted[j].out # o
            /\ applied.emitted[k].out = o


\* C33: after a Ping is received on a connection that is not closing, a Pong
\* is eventually sent (or the connection closes first), also when the send
\* loop is throttled and when it is in the middle of an iteration.
C33_PingIsAnswered ==
  (applied.fn = "pong" /\ applied.waiting # {} /\ ~conn.isClosing)
    ~> (applied.waiting = {} \/ conn.isClosing)

\* Pings were answered that arrived while the loop was throttled and while it
\* was in the middle of an iteration
C33_Witness ==
  /\ applied.fn = "pong"
  /\ {"throttled", "sendCapabilities"} \subseteq applied.answered
  /\ ~conn.isClosing


\* The slots of _receivedMessages that hold a Message
OccupiedSlots == {n \in DOMAIN conn.receivedMessages : conn.receivedMessages[n] # 0}

\* C34: _receivedMessagesCount is the number of occupied entries of the table
\* of incoming messages, whatever data groups, last frames and cancels were
\* received and whether or not forceClose was called.
C34_CountIsOccupiedSlots ==
  conn.receivedMessagesCount = Cardinality(OccupiedSlots)


\* The message numbers in the pool, and those of the messages in the send queue
PoolNumbers == {conn.sendMessageNumbers[i] : i \in 1..Len(conn.sendMessageNumbers)}

InFlight == SQQueued(conn.sendQueue)

InFlightNumbers == {conn.outs[o].messageNumber : o \in InFlight}

\* C35: no message number is held by two outgoing messages at once, the pool
\* never holds a number twice, and the numbers of the pool and those of the
\* messages in flight partition 0 .. maxConcurrentMessages - 1.
C35_NumbersPartition ==
  /\ \A a, b \in InFlight : conn.outs[a].messageNumber = conn.outs[b].messageNumber => a = b
  /\ Cardinality(PoolNumbers) = Len(conn.sendMessageNumbers)
  /\ PoolNumbers \cap InFlightNumbers = {}
  /\ PoolNumbers \cup InFlightNumbers = 0..(conn.config.maxConcurrentMessages - 1)

\* A message was cancelled after part of it was sent and its number is back
\* in the pool, while another message is in flight with the other number
C35_Witness ==
  /\ Cardinality(InFlight) = 1
  /\ \E o \in 1..Len(conn.outs) :
       /\ o \notin InFlight
       /\ conn.outs[o].bytesSent > 0
       /\ BytesRemaining(conn.outs, o) > 0
       /\ conn.outs[o].messageNumber \in PoolNumbers
  /\ ~conn.isClosing


\* C36: the remaining byte budget never becomes negative, and the payload
\* bytes put into data frames between two consecutive budget resets never
\* exceed the budget computed at the first of them.
C36_WithinBudget ==
  /\ applied.fn = "throttle" =>
       /\ conn.bytesRemaining >= 0
       /\ applied.sent <= applied.budget
       /\ conn.bytesRemaining = applied.budget - applied.sent
  /\ applied.fn = "estimate" =>
       /\ applied.bytesRemaining >= 0
       /\ applied.sent <= applied.budget

\* A budget, not the first, was used up by the frames of two iterations, the
\* last of them a part of a longer message
C36_Witness ==
  /\ applied.fn = "throttle"
  /\ applied.resets = 2
  /\ applied.budget > 0
  /\ applied.sent = applied.budget
  /\ conn.sendLoop = "whenAnyReset"
  /\ \E o \in InFlight : conn.outs[o].bytesSent = 1 /\ conn.outs[o].length = MaxLen


\* Some level of the send queue has a head with payload ready
HeadReady == ReadyLevels(conn.sendQueue, conn.outs, conn.msgs) # {}

\* C37: while the connection is not closing, if a message of the send queue
\* has payload ready (here: the head of some level has), a data frame is
\* eventually sent: the count of payload bytes handed to the socket grows,
\* wherever the send loop stood when the payload became ready.
C37_ReadyDataIsSent ==
  \A k \in 0..(MaxOut * MaxLen) :
    (HeadReady /\ ~conn.isClosing /\ TotalSent(conn) = k)
      ~> (TotalSent(conn) > k \/ conn.isClosing)

\* C38: for any interleaving of the tasks at their await points, at most one
\* task is between the return of its lock() and its unlock(), and no lock()
\* returns while another task is there.
C38_OneHolder ==
  /\ applied.fn = "mutex" =>
       /\ Cardinality(applied.holders) <= 1
       /\ applied.holders # {} => applied.isLocked
       /\ \A t \in Tasks : t \in applied.holders <=> applied.pc[t] \in {"held", "yielded"}

\* a task woken by unlock() finds the mutex taken again by a third task
C38_Witness ==
  /\ applied.fn = "mutex"
  /\ \E t, u \in Tasks :
       /\ t # u
       /\ applied.pc[t] = "resolved"
       /\ applied.pc[u] = "yielded"
       /\ applied.waiters # <<>>

\* C39: the capability flags are pairwise disjoint single bits, so negotiating
\* a set holding Capabilities and Capabilities2 against a set holding
\* Capabilities and CancelMessage yields exactly Capabilities.
C39_FlagsAreDisjointBits ==
  (/\ applied.fn = "negotiateFlags"
   /\ applied.caps1.flags = {Capabilities, Capabilities2}
   /\ applied.caps2.flags = {Capabilities, CancelMessage})
    => /\ \A f \in Flags : Cardinality(MaskOf(f)) = 1
       /\ \A f, g \in Flags : f # g => MaskOf(f) \cap MaskOf(g) = {}
       /\ applied.result.capabilities1 = MaskOf(Capabilities)

\* the part of C39 that holds: the result is the bits both sides have
C39_ResultIsCommonBits ==
  applied.fn = "negotiateFlags" =>
    applied.result.capabilities1
      = MaskOfFlags(applied.caps1.flags) \cap MaskOfFlags(applied.caps2.flags)

\* C40: after any sequence of enqueue, getNext and cancel calls, the cursor
\* of the send queue (_highestPriority) is never greater than the priority of
\* any message currently queued.
C40_CursorNotPastQueued ==
  \A o \in SQQueued(conn.sendQueue) :
    conn.sendQueue.highestPriority <= conn.outs[o].priority

====
